---- MODULE Spec2Model ----
(***************************************************************************)
(* A model of GraphQLClient (src/src/GraphQLClient.ts): the HTTP request   *)
(* pipeline (executeQueryRaw), the response cache (executeQuery and the    *)
(* cache store) and the subscription session (executeSubscription).        *)
(*                                                                         *)
(* JavaScript runs every handler to completion, so one action is one       *)
(* handler (a call of the public API, a promise continuation or a socket   *)
(* event), with the callbacks it invokes; a callback may call back into    *)
(* the client before it returns (parameter re of the session actions).     *)
(***************************************************************************)
EXTENDS Integers, Sequences, FiniteSets, TLC

VARIABLES
    raw,    \* the client's configuration, pendingRequests and its executeQueryRaw calls
    store,  \* the query cache: the entries, the table of them, the requests in flight
    sub,    \* the subscription session of one executeSubscription call
    subs    \* the sessions of one client and its activeSubscriptions

rawVars == <<raw>>
cacheVars == <<store>>
subVars == <<sub>>
subsVars == <<subs>>
vars == <<raw, store, sub, subs>>

-----------------------------------------------------------------------------
(* Bounds *)

\* Calls of executeQueryRaw.
MaxCalls == 2
\* Operations of the callers of the query cache, completions of its requests and
\* ticks of its clock.
MaxOps == 4
\* Events a session is offered beyond those that happen once (its start, its
\* payload, the socket's open and close, the first abort): message events, frames
\* the policy's timers send, and aborts of a session that is already aborted.
MaxEvents == 3
\* Sessions of one client.
MaxSessions == 2
\* Entries of the table that allocateCacheSize is given.
MaxEntries == 3

-----------------------------------------------------------------------------
(* executeQueryRaw: src/src/GraphQLClient.ts 74-240 *)

\* What a promise is rejected with, or a hook throws: a string, an object with a
\* message, an object without one, or null / undefined.
Errors == {"string", "error", "object", "nullish"}
\* What the platform's own promises (Response.json) are rejected with.
PlatformErrors == {"error"}

\* Response.status: a 2xx, a 4xx and another one
Statuses == {200, 400, 500}
\* The Content-Type header of a response ("": none), as sent.
ContentTypes == {"", "application/json", "Application/JSON; charset=utf-8",
                 "application/graphql-response+json", "text/html"}
\* ?.split(";")[0].trim().toLowerCase(): 149
mediaType(h) ==
    IF h = "Application/JSON; charset=utf-8" THEN "application/json" ELSE h

\* The JSON a body parses to: an object with data, one with data and a non-empty
\* errors, one with errors only, one with an empty errors and data, and a value
\* that is no object (null).
Bodies == {"data", "data+errors", "errors", "data+noerrors", "null"}
\* The Content-Length header ("": none) and the length of JSON.stringify(jsonData).
ContentLengths == {"", "20"}
JsonLength == 17

NoResult == [networkError |-> FALSE, data |-> FALSE, errors |-> FALSE,
             message |-> "", size |-> 0]
\* the three error results: 162-166, 196-207, 214-225
NetworkError(message) ==
    [networkError |-> TRUE, data |-> FALSE, errors |-> TRUE,
     message |-> message, size |-> 1000]

InitCall == [stage |-> "idle",       \* idle, transform, construct, fetch, json,
                                     \* resolved, rejected (of the result promise)
             aborted |-> FALSE,      \* cancelSource.abort() was called
             bodyLength |-> "",      \* the Content-Length of the response
             increments |-> 0, decrements |-> 0,
             result |-> NoResult]

Calls == 1..MaxCalls

\* this.pendingRequests += 1 / -= 1, for call i
Increment(w, i) ==
    [w EXCEPT !.pendingRequests = @ + 1, !.calls[i].increments = @ + 1]
Decrement(w, i) ==
    [w EXCEPT !.pendingRequests = @ - 1, !.calls[i].decrements = @ + 1]
Resolve(w, i, r) ==
    [w EXCEPT !.calls[i].stage = "resolved", !.calls[i].result = r,
              !.calls[i].bodyLength = ""]

\* the second handler of the then at 130: 212-227, without its decrement
requestFailedNoDecrement(w, i, e) ==
    Resolve(w, i,
            NetworkError(IF e = "string" THEN "error"
                         ELSE "Error initializing request configuration"))

\* the second handler of the then at 130: 212-227
requestFailed(w, i, e) ==
    Resolve(Decrement(w, i), i,
            NetworkError(IF e = "string" THEN "error"
                         ELSE "Error initializing request configuration"))

\* the catch of the fetch chain: 194-209.  error.message of null or undefined
\* throws, and the result promise is rejected with that TypeError.
fetchCatch(w, i, e) ==
    IF e = "nullish" THEN [w EXCEPT !.calls[i].stage = "rejected"]
    ELSE Resolve(w, i,
                 NetworkError(IF e = "string" THEN "error"
                              ELSE IF e = "error" THEN "error.message"
                              ELSE "Unknown error from Fetch API"))

\* valid without its tests of the content type
validAnyContentType(w, status, h) ==
    \/ status >= 200 /\ status < 300
    \/ status >= 400 /\ status < 500

\* 147-158
valid(w, status, h) ==
    IF w.validateResponseContentType
    THEN \/ /\ status >= 200 /\ status < 300
            /\ mediaType(h) \in {"application/graphql-response+json", "application/json"}
         \/ /\ status >= 400 /\ status < 500
            /\ mediaType(h) = "application/graphql-response+json"
    ELSE \/ status >= 200 /\ status < 300
         \/ status >= 400 /\ status < 500

\* fetch's promise is fulfilled: 135-186.  logThrows: what logHttpError throws,
\* "" when it returns.
onResponse(w, i, status, h, length, logThrows) ==
    LET a == Decrement(w, i)
    IN IF w.logHttpError /\ (status < 200 \/ status >= 300) /\ logThrows # ""
       THEN fetchCatch(a, i, logThrows)
       ELSE IF ~valid(w, status, h)
       THEN Resolve(a, i, NetworkError("statusText"))
       ELSE [a EXCEPT !.calls[i].stage = "json", !.calls[i].bodyLength = length]

\* fetch's promise is rejected: 187-192, then the catch
onFetchRejected(w, i, e) == fetchCatch(Decrement(w, i), i, e)

\* data.json() is fulfilled: 171-185.  A body that is no object makes the
\* handler throw a TypeError (an object with a message).
onJson(w, i, body) ==
    IF body = "null" THEN fetchCatch(w, i, "error")
    ELSE Resolve(w, i,
                 [networkError |-> FALSE,
                  data |-> body \in {"data", "data+noerrors"},
                  errors |-> body \in {"data+errors", "errors"},
                  message |-> "",
                  size |-> IF w.calls[i].bodyLength # "" THEN 20 ELSE JsonLength])

-----------------------------------------------------------------------------
(* Actions of executeQueryRaw *)

\* executeQueryRaw is called: 74-118
ExecuteQueryRaw(i) ==
    /\ UNCHANGED <<store, sub, subs>>
    /\ raw.calls[i].stage = "idle"
    /\ \A j \in 1..(i - 1) : raw.calls[j].stage # "idle"
    /\ raw' = Increment([raw EXCEPT !.calls[i].stage = "transform"], i)

\* the handler at 119-122 returns, or the promise transformRequest gave is fulfilled
TransformDone(i) ==
    /\ UNCHANGED <<store, sub, subs>>
    /\ raw.calls[i].stage = "transform"
    /\ raw' = [raw EXCEPT !.calls[i].stage = "construct"]

\* transformRequest throws, or its promise is rejected
TransformFailed(i, e) ==
    /\ UNCHANGED <<store, sub, subs>>
    /\ raw.calls[i].stage = "transform" /\ raw.transformRequest
    /\ raw' = requestFailed(raw, i, e)

\* new Request(url, config3) returns and fetch is called: 123-133
FetchStarted(i) ==
    /\ UNCHANGED <<store, sub, subs>>
    /\ raw.calls[i].stage = "construct"
    /\ raw' = [raw EXCEPT !.calls[i].stage = "fetch"]

\* new Request(url, config3) throws a TypeError: 128
ConstructFailed(i) ==
    /\ UNCHANGED <<store, sub, subs>>
    /\ raw.calls[i].stage = "construct"
    /\ raw' = requestFailed(raw, i, "error")

\* a response arrives (not once the request is aborted)
ResponseReceived(i, status, h, length, logThrows) ==
    /\ UNCHANGED <<store, sub, subs>>
    /\ raw.calls[i].stage = "fetch" /\ ~raw.calls[i].aborted
    /\ raw' = onResponse(raw, i, status, h, length, logThrows)

\* fetch fails; an aborted request fails with an AbortError
FetchRejected(i, e) ==
    /\ UNCHANGED <<store, sub, subs>>
    /\ raw.calls[i].stage = "fetch"
    /\ raw.calls[i].aborted => e = "error"
    /\ raw' = onFetchRejected(raw, i, e)

\* the body is read and parsed (not once the request is aborted)
JsonParsed(i, body) ==
    /\ UNCHANGED <<store, sub, subs>>
    /\ raw.calls[i].stage = "json" /\ ~raw.calls[i].aborted
    /\ raw' = onJson(raw, i, body)

\* the body cannot be read or is no JSON: data.json() is rejected
JsonFailed(i, e) ==
    /\ UNCHANGED <<store, sub, subs>>
    /\ raw.calls[i].stage = "json"
    /\ raw' = fetchCatch(raw, i, e)

\* the caller calls the returned abort(): 231-235
AbortRaw(i) ==
    /\ UNCHANGED <<store, sub, subs>>
    /\ raw.calls[i].stage # "idle"
    /\ raw' = IF raw.cancelSource /\ raw.calls[i].stage \notin {"resolved", "rejected"}
              THEN [raw EXCEPT !.calls[i].aborted = TRUE]
              ELSE raw

RawNext ==
    \E i \in Calls :
       \/ ExecuteQueryRaw(i)
       \/ TransformDone(i)
       \/ \E e \in Errors : TransformFailed(i, e)
       \/ FetchStarted(i)
       \/ ConstructFailed(i)
       \/ \E status \in Statuses, h \in ContentTypes :
             \E length \in IF valid(raw, status, h) THEN ContentLengths ELSE {""},
                logThrows \in IF raw.logHttpError /\ (status < 200 \/ status >= 300)
                              THEN {""} \cup Errors ELSE {""} :
                ResponseReceived(i, status, h, length, logThrows)
       \/ \E e \in Errors : FetchRejected(i, e)
       \/ \E body \in Bodies : JsonParsed(i, body)
       \/ \E e \in PlatformErrors : JsonFailed(i, e)
       \/ AbortRaw(i)

\* The client as constructed (47-68), with any configuration of the hooks, on a
\* platform with or without AbortController (106).
InitRaw(tr, lg, vd, ac) ==
    [transformRequest |-> tr, logHttpError |-> lg,
     validateResponseContentType |-> vd, cancelSource |-> ac,
     pendingRequests |-> 0,
     calls |-> [i \in Calls |-> InitCall]]
RawInit == \E tr, lg, vd, ac \in BOOLEAN : raw = InitRaw(tr, lg, vd, ac)
\* the client of a configuration without hooks
RawInitDefault == raw = InitRaw(FALSE, FALSE, FALSE, TRUE)

-----------------------------------------------------------------------------
(* The query cache: src/src/GraphQLClient.ts 242-345 and 581-697 *)

\* JSON.stringify(request) of the requests that are executed
Keys == {"a", "b"}
CacheModes == {"no-cache", "cache-first", "cache-and-network"}
\* the callbacks that callers subscribe
Callbacks == {"f", "g"}
\* What a transport call resolves with: a Result with data and no errors, or one
\* whose errors are not empty (of GraphQL, or a network error).  "null" is the result of an entry that has none.
Results == {"data", "errors"}
\* hasErrors finding no errors in any Result
hasErrorsNever(r) == FALSE

\* data.errors && data.errors.length: 278
hasErrors(r) == r = "errors"
\* data.size: the Content-Length of the response or the length of its JSON
\* text (176-181), here of responses of 1000 characters; of a network error, 1000
resultSize(r) == 1000

\* configuration.maxCacheSize and configuration.defaultCacheTime (in ticks of
\* the clock)
maxCacheSize == 2000
defaultCacheTime == 1
\* the size of an entry without its result: 636, 283
EntryOverhead == 1000

\* new Map(), cacheSize = 0: 57-58.  entries holds every entry object made, in
\* the table or not; cache is the Map, as the entries in insertion order.
InitStore == [entries |-> <<>>, cache |-> <<>>, cacheSize |-> 0,
              maxCacheSize |-> maxCacheSize,
              requests |-> {},      \* transport calls whose promise is pending
              transportCalls |-> 0, \* executeQueryRaw calls made
              notified |-> <<>>,    \* the subscriber calls of an operation
              now |-> 1,            \* Date.now()
              last |-> "",          \* the operation last made
              ops |-> 0]

\* 630-637, and the response of 257-260
NewEntry(key, mode, nowDate) ==
    [key |-> key, expires |-> 0, lastUsed |-> nowDate, subscribers |-> <<>>,
     size |-> EntryOverhead,
     noCache |-> (mode = "no-cache"),   \* cacheMode of the factory's closure
     result |-> "null", resultPromise |-> 0, loading |-> FALSE,
     cancelRequest |-> 0]

EntryIds(c) == 1..Len(c.entries)
InCache(c, e) == \E k \in 1..Len(c.cache) : c.cache[k] = e
\* a get that finds no entry
getNothing(c, key) == 0

\* this.cache.get(key): the entry, or 0
get(c, key) ==
    IF \E k \in 1..Len(c.cache) : c.entries[c.cache[k]].key = key
    THEN c.cache[CHOOSE k \in 1..Len(c.cache) : c.entries[c.cache[k]].key = key]
    ELSE 0

\* if (this.cache.delete(value.queryAndVariablesString)) this.cacheSize -= value.size
delete(c, value) ==
    IF get(c, c.entries[value].key) # 0
    THEN [c EXCEPT !.cache = SelectSeq(@, LAMBDA x : c.entries[x].key # c.entries[value].key),
                   !.cacheSize = @ - c.entries[value].size]
    ELSE c

RECURSIVE deleteEach(_, _)
deleteEach(c, values) ==
    IF values = <<>> THEN c ELSE deleteEach(delete(c, Head(values)), Tail(values))

\* the loop at 682-687 looking for the entry used last
newestEntry(c, exclude) ==
    LET cands == SelectSeq(c.cache, LAMBDA x : c.entries[x].subscribers = <<>> /\ x # exclude)
        used(k) == c.entries[cands[k]].lastUsed
    IN IF cands = <<>> THEN 0
       ELSE cands[CHOOSE k \in 1..Len(cands) :
                     /\ \A j \in 1..Len(cands) : used(j) <= used(k)
                     /\ \A j \in 1..(k - 1) : used(j) < used(k)]

\* the entry the loop at 682-687 ends with, or 0
oldestEntry(c, exclude) ==
    LET cands == SelectSeq(c.cache, LAMBDA x : c.entries[x].subscribers = <<>> /\ x # exclude)
        used(k) == c.entries[cands[k]].lastUsed
    IN IF cands = <<>> THEN 0
       ELSE cands[CHOOSE k \in 1..Len(cands) :
                     /\ \A j \in 1..Len(cands) : used(j) >= used(k)
                     /\ \A j \in 1..(k - 1) : used(j) > used(k)]

\* the loop of 678-696 leaving after its first removal
deleteOldestOnce(c, newSize, exclude) ==
    IF c.cacheSize + newSize - c.maxCacheSize <= 0 \/ oldestEntry(c, exclude) = 0
    THEN c
    ELSE delete(c, oldestEntry(c, exclude))

\* the loop of 678-696
RECURSIVE deleteOldest(_, _, _)
deleteOldest(c, newSize, exclude) ==
    IF c.cacheSize + newSize - c.maxCacheSize <= 0 \/ oldestEntry(c, exclude) = 0
    THEN c
    ELSE deleteOldest(delete(c, oldestEntry(c, exclude)), newSize, exclude)

\* 657-697 without the test of the subscribers
allocateCacheSizeAnyEntry(c, newSize, exclude) ==
    IF c.cacheSize + newSize - c.maxCacheSize <= 0 THEN c
    ELSE deleteOldest(deleteEach(c, SelectSeq(c.cache, LAMBDA x : c.entries[x].expires < c.now)),
                      newSize, exclude)

\* 657-697; exclude = 0: none
allocateCacheSize(c, newSize, exclude) ==
    IF c.cacheSize + newSize - c.maxCacheSize <= 0 THEN c
    ELSE LET entriesToRemove ==
                 SelectSeq(c.cache, LAMBDA x : /\ c.entries[x].subscribers = <<>>
                                               /\ c.entries[x].expires < c.now)
         IN deleteOldest(deleteEach(c, entriesToRemove), newSize, exclude)

\* 647-655
setCacheEntrySize(c, cacheEntry, newSize) ==
    LET a == IF get(c, c.entries[cacheEntry].key) = cacheEntry
             THEN LET s == [c EXCEPT !.cacheSize = @ - c.entries[cacheEntry].size]
                      t == allocateCacheSize(s, newSize, cacheEntry)
                  IN [t EXCEPT !.cacheSize = @ + t.entries[cacheEntry].size]
             ELSE c
    IN [a EXCEPT !.entries[cacheEntry].size = newSize]

\* a forEach that calls the subscribers from the last registered to the first
notifyNewestFirst(c, e, data) ==
    LET q == c.entries[e].subscribers
    IN [c EXCEPT !.notified = @ \o [k \in 1..Len(q) |->
                                       [callback |-> q[Len(q) + 1 - k], data |-> data]]]

\* subscribers.forEach(subscriber => subscriber(data)): 288-290, 319-321
notify(c, e, data) ==
    [c EXCEPT !.notified = @ \o [k \in 1..Len(c.entries[e].subscribers) |->
                                    [callback |-> c.entries[e].subscribers[k], data |-> data]]]

\* refresh without the test of loading at 264
refreshAlways(c, e) ==
    LET promise == c.transportCalls + 1
    IN [c EXCEPT !.transportCalls = promise,
                 !.requests = @ \cup {[promise |-> promise, entry |-> e, cancelled |-> FALSE]},
                 !.entries[e].loading = TRUE,
                 !.entries[e].resultPromise = promise,
                 !.entries[e].cancelRequest = promise]

\* response.refresh: 262-296.  The promise it returns is the entry's
\* resultPromise afterwards; a promise is named by the number of its call.
refresh(c, e) ==
    IF c.entries[e].loading THEN c ELSE refreshAlways(c, e)

\* the handler of exec.result.then without its test of resultPromise
onResultAny(c, r, data) ==
    LET e == r.entry
        a == [c EXCEPT !.requests = @ \ {r}]
        b == [a EXCEPT !.entries[e].result = data,
                       !.entries[e].loading = FALSE,
                       !.entries[e].cancelRequest = 0]
        d == IF hasErrors(data)
             THEN [b EXCEPT !.entries[e].expires = 0]
             ELSE LET s == setCacheEntrySize(b, e, resultSize(data) + EntryOverhead)
                  IN IF ~s.entries[e].noCache
                     THEN [s EXCEPT !.entries[e].expires = s.now + defaultCacheTime]
                     ELSE s
    IN notify(d, e, data)

\* the handler of exec.result.then testing that the entry is loading instead of
\* comparing resultPromise with its own promise
onResultWhileLoading(c, r, data) ==
    LET e == r.entry
        a == [c EXCEPT !.requests = @ \ {r}]
    IN IF ~a.entries[e].loading THEN a ELSE onResultAny(c, r, data)

\* the handler of exec.result.then: 271-292
onResult(c, r, data) ==
    LET e == r.entry
        a == [c EXCEPT !.requests = @ \ {r}]
    IN IF a.entries[e].resultPromise # r.promise THEN a
       ELSE LET b == [a EXCEPT !.entries[e].result = data,
                               !.entries[e].loading = FALSE,
                               !.entries[e].cancelRequest = 0]
                d == IF hasErrors(data)
                     THEN [b EXCEPT !.entries[e].expires = 0]
                     ELSE LET s == setCacheEntrySize(b, e, resultSize(data) + EntryOverhead)
                          IN IF ~s.entries[e].noCache
                             THEN [s EXCEPT !.entries[e].expires = s.now + defaultCacheTime]
                             ELSE s
            IN notify(d, e, data)

\* a cancelRequest that does nothing
cancelNothing(c, promise) == c

\* newEntry.cancelRequest(): the abort of executeQueryRaw, 231-235
cancel(c, promise) ==
    [c EXCEPT !.requests = {IF r.promise = promise THEN [r EXCEPT !.cancelled = TRUE] ELSE r :
                             r \in @}]

\* forceRefresh without its call of cancelRequest
forceRefreshNoCancel(c, e) ==
    refresh(IF c.entries[e].loading
            THEN [c EXCEPT !.entries[e].cancelRequest = 0,
                           !.entries[e].loading = FALSE,
                           !.entries[e].resultPromise = 0]
            ELSE c, e)

\* response.forceRefresh: 298-311
forceRefresh(c, e) ==
    refresh(IF c.entries[e].loading
            THEN [(IF c.entries[e].cancelRequest # 0
                   THEN cancel(c, c.entries[e].cancelRequest) ELSE c)
                  EXCEPT !.entries[e].cancelRequest = 0,
                         !.entries[e].loading = FALSE,
                         !.entries[e].resultPromise = 0]
            ELSE c, e)

\* clearAndRefresh calling the subscribers with null whatever the result was
clearAndRefreshAlways(c, e) ==
    notify([forceRefresh(c, e) EXCEPT !.entries[e].result = "null"], e, "null")

\* response.clearAndRefresh: 313-323
clearAndRefresh(c, e) ==
    LET a == forceRefresh(c, e)
    IN IF a.entries[e].result # "null"
       THEN notify([a EXCEPT !.entries[e].result = "null"], e, "null")
       ELSE a

\* response.subscribe, and the function it returns: 325-330
subscribe(c, e, callback) == [c EXCEPT !.entries[e].subscribers = Append(@, callback)]
\* the function subscribe returned taking one registration of the callback,
\* the first, out of the list
unsubscribeFirst(c, e, callback) ==
    LET q == c.entries[e].subscribers
    IN IF \E k \in 1..Len(q) : q[k] = callback
       THEN LET k == CHOOSE k \in 1..Len(q) : q[k] = callback /\ \A j \in 1..(k - 1) : q[j] # callback
            IN [c EXCEPT !.entries[e].subscribers = SubSeq(q, 1, k - 1) \o SubSeq(q, k + 1, Len(q))]
       ELSE c
unsubscribe(c, e, callback) ==
    [c EXCEPT !.entries[e].subscribers = SelectSeq(@, LAMBDA x : x # callback)]

\* getOrCreateCacheEntry returning the entry of the key that is in the table
\* whatever the mode
getOrCreateCacheEntryReusing(c, key, mode) ==
    LET valueFromCache == get(c, key)
    IN IF valueFromCache # 0
       THEN <<[c EXCEPT !.entries[valueFromCache].lastUsed = c.now], valueFromCache>>
       ELSE LET newEntry == Len(c.entries) + 1
                b == [c EXCEPT !.entries = Append(@, NewEntry(key, mode, c.now))]
                d == allocateCacheSize(refresh(b, newEntry), b.entries[newEntry].size, 0)
            IN <<[d EXCEPT !.cacheSize = @ + d.entries[newEntry].size,
                           !.cache = Append(SelectSeq(@, LAMBDA x : d.entries[x].key # key),
                                            newEntry)],
                 newEntry>>

\* getOrCreateCacheEntry (614-645) with the factory of executeQuery (255-334):
\* the store afterwards and the entry returned
getOrCreateCacheEntry(c, key, mode) ==
    LET valueFromCache == get(c, key)
        noCache == (mode = "no-cache")
    IN IF valueFromCache # 0 /\ (c.entries[valueFromCache].subscribers # <<>> \/ ~noCache)
       THEN <<[c EXCEPT !.entries[valueFromCache].lastUsed = c.now], valueFromCache>>
       ELSE LET a == IF valueFromCache # 0 THEN delete(c, valueFromCache) ELSE c
                newEntry == Len(a.entries) + 1
                b == [a EXCEPT !.entries = Append(@, NewEntry(key, mode, a.now))]
                d == allocateCacheSize(refresh(b, newEntry), b.entries[newEntry].size, 0)
            IN <<[d EXCEPT !.cacheSize = @ + d.entries[newEntry].size,
                           !.cache = Append(SelectSeq(@, LAMBDA x : d.entries[x].key # key),
                                            newEntry)],
                 newEntry>>

\* executeQuery refreshing the entry without looking at its subscribers
executeQueryAnySubscribers(c, key, mode) ==
    LET got == getOrCreateCacheEntry(c, key, mode)
        a == got[1]
        newEntry == got[2]
    IN IF mode = "cache-and-network" \/ a.entries[newEntry].expires < a.now
       THEN refresh(a, newEntry) ELSE a

\* executeQuery: 242-345
executeQuery(c, key, mode) ==
    LET got == getOrCreateCacheEntry(c, key, mode)
        a == got[1]
        newEntry == got[2]
    IN IF /\ a.entries[newEntry].subscribers = <<>>
          /\ (mode = "cache-and-network" \/ a.entries[newEntry].expires < a.now)
       THEN refresh(a, newEntry) ELSE a

\* the forEach of 598-600
RECURSIVE expireEach(_, _)
expireEach(c, values) ==
    IF values = <<>> THEN c
    ELSE expireEach([c EXCEPT !.entries[Head(values)].expires = 0], Tail(values))

\* clearCache: 594-602
clearCache(c) == allocateCacheSize(expireEach(c, c.cache), c.maxCacheSize, 0)

\* the forEach of 586-591 calling refresh whatever force says
RECURSIVE refreshEachNeverForce(_, _, _)
refreshEachNeverForce(c, values, force) ==
    IF values = <<>> THEN c
    ELSE refreshEachNeverForce(IF c.entries[Head(values)].subscribers # <<>>
                               THEN refresh(c, Head(values)) ELSE c,
                               Tail(values), force)

\* the forEach of 586-591
RECURSIVE refreshEach(_, _, _)
refreshEach(c, values, force) ==
    IF values = <<>> THEN c
    ELSE refreshEach(IF c.entries[Head(values)].subscribers # <<>>
                     THEN IF force THEN forceRefresh(c, Head(values))
                          ELSE refresh(c, Head(values))
                     ELSE c,
                     Tail(values), force)

\* refreshAll: 581-592
refreshAll(c, force) == refreshEach(clearCache(c), clearCache(c).cache, force)

\* the forEach of 609-611
RECURSIVE clearAndRefreshEach(_, _)
clearAndRefreshEach(c, values) ==
    IF values = <<>> THEN c
    ELSE clearAndRefreshEach(clearAndRefresh(c, Head(values)), Tail(values))

\* resetStore: 604-612
resetStore(c) == clearAndRefreshEach(clearCache(c), clearCache(c).cache)

-----------------------------------------------------------------------------
(* Actions of the query cache *)

\* an operation begins
Operation(c, name) == [c EXCEPT !.ops = @ + 1, !.last = name]
\* the store once the subscriber calls of an operation are made
Done(c) == [c EXCEPT !.notified = <<>>]
Budget == store.ops < MaxOps

ExecuteQuery(key, mode) ==
    /\ UNCHANGED <<raw, sub, subs>>
    /\ Budget
    /\ store' = Done(executeQuery(Operation(store, "executeQuery"), key, mode))

\* the holder of an entry's response calls its refresh
Refresh(e) ==
    /\ UNCHANGED <<raw, sub, subs>>
    /\ Budget
    /\ store' = Done(refresh(Operation(store, "refresh"), e))

ForceRefresh(e) ==
    /\ UNCHANGED <<raw, sub, subs>>
    /\ Budget
    /\ store' = Done(forceRefresh(Operation(store, "forceRefresh"), e))

ClearAndRefresh(e) ==
    /\ UNCHANGED <<raw, sub, subs>>
    /\ Budget
    /\ store' = Done(clearAndRefresh(Operation(store, "clearAndRefresh"), e))

Subscribe(e, callback) ==
    /\ UNCHANGED <<raw, sub, subs>>
    /\ Budget
    /\ store' = Done(subscribe(Operation(store, "subscribe"), e, callback))

\* a function that subscribe returned is called
Unsubscribe(e, callback) ==
    /\ UNCHANGED <<raw, sub, subs>>
    /\ Budget
    /\ \E k \in 1..Len(store.entries[e].subscribers) : store.entries[e].subscribers[k] = callback
    /\ store' = Done(unsubscribe(Operation(store, "unsubscribe"), e, callback))

\* the result promise of a transport call is resolved
RequestCompleted(r, data) ==
    /\ UNCHANGED <<raw, sub, subs>>
    /\ Budget
    /\ r \in store.requests
    /\ store' = Done(onResult(Operation(store, "onResult"), r, data))

ClearCache ==
    /\ UNCHANGED <<raw, sub, subs>>
    /\ Budget
    /\ store' = Done(clearCache(Operation(store, "clearCache")))

RefreshAll(force) ==
    /\ UNCHANGED <<raw, sub, subs>>
    /\ Budget
    /\ store' = Done(refreshAll(Operation(store, "refreshAll"), force))

ResetStore ==
    /\ UNCHANGED <<raw, sub, subs>>
    /\ Budget
    /\ store' = Done(resetStore(Operation(store, "resetStore")))

\* time passes
Tick ==
    /\ UNCHANGED <<raw, sub, subs>>
    /\ Budget
    /\ store' = [Operation(store, "tick") EXCEPT !.now = @ + 1]

CacheNext ==
    \/ \E key \in Keys, mode \in CacheModes : ExecuteQuery(key, mode)
    \/ \E e \in EntryIds(store) : Refresh(e)
    \/ \E e \in EntryIds(store) : ForceRefresh(e)
    \/ \E e \in EntryIds(store) : ClearAndRefresh(e)
    \/ \E e \in EntryIds(store), callback \in Callbacks : Subscribe(e, callback)
    \/ \E e \in EntryIds(store), callback \in Callbacks : Unsubscribe(e, callback)
    \/ \E r \in store.requests, data \in Results : RequestCompleted(r, data)
    \/ ClearCache
    \/ \E force \in BOOLEAN : RefreshAll(force)
    \/ ResetStore
    \/ Tick

CacheInit == store = InitStore

-----------------------------------------------------------------------------
(* allocateCacheSize on a table of entries: 657-697 *)

\* the keys of the entries of the table
AllocKeys == <<"a", "b", "c", "d", "e">>
\* Date.now() when allocateCacheSize is called: 664
AllocNow == 3
\* An entry of the table is one whose request completed with errors, or with
\* data and an expiry that has passed since, or with data and an expiry to come.
EntryStates == {"errors", "expired", "unexpired"}
EntryChoices == [state : EntryStates, subscribers : {<<>>, <<"f">>}, lastUsed : 1..2]
AllocEntry(key, ch) ==
    [key |-> key,
     expires |-> (IF ch.state = "errors" THEN 0
                  ELSE IF ch.state = "expired" THEN AllocNow - 1 ELSE AllocNow + 1),
     lastUsed |-> ch.lastUsed, subscribers |-> ch.subscribers,
     size |-> (IF ch.state = "errors" THEN EntryOverhead
               ELSE EntryOverhead + resultSize("data")),
     noCache |-> FALSE,
     result |-> (IF ch.state = "errors" THEN "errors" ELSE "data"),
     resultPromise |-> 0, loading |-> FALSE, cancelRequest |-> 0]
\* the store of a client with maxCacheSize max that has made these entries, one
\* after the other, and has counted each in cacheSize as 636-642 and 647-655 do
AllocStore(f, max) ==
    [InitStore EXCEPT !.entries = [i \in 1..MaxEntries |-> AllocEntry(AllocKeys[i], f[i])],
                      !.cache = [i \in 1..MaxEntries |-> i],
                      !.cacheSize = MaxEntries * EntryOverhead,
                      !.maxCacheSize = max,
                      !.now = AllocNow]
\* configuration.maxCacheSize of the clients
AllocLimits == {maxCacheSize, maxCacheSize + EntryOverhead}
\* the sizes asked for: of a new entry (636), of an entry with its result (283)
AllocSizes == {EntryOverhead, EntryOverhead + resultSize("data"),
               EntryOverhead + resultSize("data") + resultSize("data")}

\* this.allocateCacheSize(newSize): 639
Allocate(newSize) ==
    /\ UNCHANGED <<raw, sub, subs>>
    /\ store.last = ""
    /\ store' = [allocateCacheSize(store, newSize, 0) EXCEPT !.last = "allocateCacheSize"]

AllocNext == \E newSize \in AllocSizes : Allocate(newSize)

-----------------------------------------------------------------------------
(* Subscription session: src/src/GraphQLClient.ts 347-579 *)

\* CloseReason (the enum is imported at line 8; its members as used in the file)
CloseReason == {"Client", "Server", "ServerError", "Timeout", "Error"}

subscriptionId == "1"

\* WebSocket.readyState
CONNECTING == 0
OPEN == 1
CLOSING == 2
CLOSED == 3

NoMsg == [type |-> "", id |-> "", payload |-> ""]
NoRes == [networkError |-> FALSE, data |-> FALSE, errors |-> FALSE, message |-> ""]

\* Inbound socket events.  raw: what ev.data is; for a parsed message its type,
\* id and payload (payload: "none" absent, "empty" an object with neither data
\* nor errors, "data", "errors", "both").
Msg(t, i, p) == [type |-> t, id |-> i, payload |-> p]
Frames ==
    {Msg("connection_ack", "", "none"), Msg("pong", "", "none"), Msg("bogus", "1", "none")}
    \cup {Msg("ping", "", p) : p \in {"none", "data"}}
    \cup {Msg("next", "1", p) : p \in {"none", "empty", "data", "errors", "both"}}
    \cup {Msg("next", "2", "data")}
    \cup {Msg("error", "1", p) : p \in {"none", "errors"}}
    \cup {Msg("error", "2", "errors")}
    \cup {Msg("complete", i, "none") : i \in {"1", "2"}}
\* ev.data that is no string, no JSON text, or the JSON text "null"
RawFrames == {Msg("#nonstring", "", ""), Msg("#badjson", "", ""), Msg("#null", "", "")}

\* Where a callback or a policy hook calls abort before it returns.
CallerPoints == {"onData", "onClose", "onOpen"}
PolicyPoints == {"hOnOpen", "hOnOutbound", "hOnInbound", "hOnAck", "hOnClose"}
Reentry == {"none"} \cup CallerPoints \cup PolicyPoints
\* The points a handler of session s can reach.
Points(s, ps) ==
    {"none"} \cup {f \in ps : ~s.aborted /\ (f \in PolicyPoints => s.policy)}

\* Log entries: what the session did, in order.
Ev(k, a) == [k |-> k, a |-> a, msg |-> NoMsg, res |-> NoRes]
EvMsg(k, m) == [k |-> k, a |-> m.type, msg |-> m, res |-> NoRes]
EvRes(r) == [k |-> "data", a |-> "", msg |-> NoMsg, res |-> r]
Emit(s, e) == [s EXCEPT !.log = Append(@, e)]

\* The session before executeSubscription is called.
InitSub ==
    [ pc |-> "idle",                 \* idle; payload: the promise generatePayload gave is
                                     \* pending; nopayload: Promise.resolve(undefined) is;
                                     \* socket; done
      policy |-> FALSE,              \* a timeoutStrategy is configured
      logger |-> FALSE,              \* logWebSocketConnectionError is configured
      aborted |-> FALSE,
      connectionResolved |-> FALSE,
      connected |-> "pending",       \* the connected promise
      timeoutHandler |-> FALSE,      \* timeoutHandler is attached
      readyState |-> CLOSED,         \* of webSocket, once pc = "socket"
      state |-> "opening",
      activeSubscriptions |-> 0,
      log |-> <<>>,
      events |-> 0,                  \* counted against MaxEvents
      late |-> FALSE ]               \* a message event came after aborted was set

\* A caller's callback f has just been invoked; when re names it, the callback
\* calls the returned abort() before it returns.
RECURSIVE doAbort(_, _, _)
CallerCb(s, f, re) == IF re = f THEN doAbort(s, "Client", "none") ELSE s

\* timeoutHandler?.hook?.(arg); when re names the hook, the policy calls
\* api.abort before the hook returns.
Hook(s, k, arg, f, re) ==
    IF s.timeoutHandler
    THEN LET a == Emit(s, Ev(k, arg))
         IN IF re = f THEN doAbort(a, "Timeout", "none") ELSE a
    ELSE s

\* oldDoAbort without its test of aborted
oldDoAbortUnguarded(s, reason, re) ==
    LET a == [s EXCEPT !.aborted = TRUE, !.activeSubscriptions = @ - 1]
        b == Hook(a, "hook.onClose", reason, "hOnClose", re)
    IN CallerCb(Emit(b, Ev("close", reason)), "onClose", re)

\* oldDoAbort leaving activeSubscriptions as it is
oldDoAbortNoDecrement(s, reason, re) ==
    IF ~s.aborted
    THEN LET a == [s EXCEPT !.aborted = TRUE]
             b == Hook(a, "hook.onClose", reason, "hOnClose", re)
         IN CallerCb(Emit(b, Ev("close", reason)), "onClose", re)
    ELSE s

\* doAbort as first defined: 363-370
oldDoAbort(s, reason, re) ==
    IF ~s.aborted
    THEN LET a == [s EXCEPT !.aborted = TRUE, !.activeSubscriptions = @ - 1]
             b == Hook(a, "hook.onClose", reason, "hOnClose", re)
         IN CallerCb(Emit(b, Ev("close", reason)), "onClose", re)
    ELSE s

\* the wrapper of the connection promise: 397-404
rejectConnection(s) ==
    IF ~s.connectionResolved
    THEN Emit([s EXCEPT !.connectionResolved = TRUE, !.connected = "rejected"],
              Ev("promise", "reject"))
    ELSE s

\* the wrapper made with the socket: 423-431.  close() leaves a socket that is
\* not CLOSED in CLOSING.
closeSocket(s, reason) ==
    IF s.pc = "socket" /\ s.readyState # CLOSED
    THEN Emit([s EXCEPT !.readyState = CLOSING],
              Ev("ws.close", IF reason = "Timeout" THEN "4408" ELSE "1000"))
    ELSE s

\* doAbort as the variable stands once executeSubscription has returned
doAbort(s, reason, re) ==
    closeSocket(rejectConnection(oldDoAbort(s, reason, re)), reason)

\* doData without its test of aborted
doDataUnguarded(s, r, re) == CallerCb(Emit(s, EvRes(r)), "onData", re)

\* 372-374
doData(s, r, re) ==
    IF ~s.aborted THEN CallerCb(Emit(s, EvRes(r)), "onData", re) ELSE s

\* doError giving the Result to the data sink and leaving the session open
doErrorNoClose(s, isString, error, re) ==
    IF s.aborted THEN s
    ELSE LET queryRet == [networkError |-> TRUE, data |-> FALSE, errors |-> TRUE,
                          message |-> IF isString THEN error
                                      ELSE "Error generating websocket connection payload"]
         IN CallerCb(Emit(s, EvRes(queryRet)), "onData", re)

\* 376-392; isString: typeof error === "string"
doError(s, isString, error, re) ==
    IF s.aborted THEN s
    ELSE LET queryRet == [networkError |-> TRUE, data |-> FALSE, errors |-> TRUE,
                          message |-> IF isString THEN error
                                      ELSE "Error generating websocket connection payload"]
         IN doAbort(CallerCb(Emit(s, EvRes(queryRet)), "onData", re), "Error", re)

\* 434-440
send(s, m, re) ==
    IF ~s.aborted /\ s.readyState = OPEN
    THEN Hook(Emit(s, EvMsg("send", m)), "hook.onOutbound", m.type, "hOnOutbound", re)
    ELSE s

\* this.logWebSocketConnectionError, if configured: 483-489, 548-554
logError(s, what) == IF s.logger THEN Emit(s, Ev("logger", what)) ELSE s

\* webSocket.onopen: 445-452
onopen(s, re) ==
    IF s.aborted THEN s
    ELSE send(Hook(s, "hook.onOpen", "", "hOnOpen", re),
              Msg("connection_init", "", "data"), re)

\* onInvalidAck closing without a Result for the data sink
onInvalidAckSilent(s, m, re) == doAbort(logError(s, m.type), "Error", re)

\* a frame other than connection_ack while opening: 481-490
onInvalidAck(s, m, re) ==
    doError(logError(s, m.type), TRUE,
            "Invalid connection response from WebSocket server", re)

\* onAck sending subscribe whatever connectionResolved says, and no open callback
onAckNoCallback(s, re) ==
    LET a == [s EXCEPT !.state = "connected"]
        b == IF ~a.connectionResolved
             THEN Emit([a EXCEPT !.connectionResolved = TRUE, !.connected = "resolved"],
                       Ev("promise", "resolve"))
             ELSE a
        c == Hook(b, "hook.onAck", "", "hOnAck", re)
    IN send(c, Msg("subscribe", subscriptionId, "data"), re)

\* connection_ack while opening: 491-504
onAck(s, re) ==
    LET a == [s EXCEPT !.state = "connected"]
        b == IF ~a.connectionResolved
             THEN CallerCb(Emit(Emit([a EXCEPT !.connectionResolved = TRUE,
                                                !.connected = "resolved"],
                                      Ev("promise", "resolve")),
                                 Ev("onOpen", "")),
                           "onOpen", re)
             ELSE a
        c == Hook(b, "hook.onAck", "", "hOnAck", re)
    IN send(c, Msg("subscribe", subscriptionId, "data"), re)

\* onNext without the test of the id
onNextAnyId(s, m, re) ==
    IF m.payload = "none" \/ m.payload = "empty"
    THEN doError(s, TRUE, "Invalid payload for 'next' packet", re)
    ELSE doData(s, [networkError |-> FALSE,
                    data |-> m.payload \in {"data", "both"},
                    errors |-> m.payload \in {"errors", "both"},
                    message |-> ""], re)

\* next while connected: 506-517
onNext(s, m, re) ==
    IF m.payload = "none" \/ m.payload = "empty" \/ m.id # subscriptionId
    THEN doError(s, TRUE, "Invalid payload for 'next' packet", re)
    ELSE doData(s, [networkError |-> FALSE,
                    data |-> m.payload \in {"data", "both"},
                    errors |-> m.payload \in {"errors", "both"},
                    message |-> ""], re)

\* onErrorFrame closing before it gives the errors to the data sink
onErrorFrameCloseFirst(s, m, re) ==
    IF m.payload = "none" \/ m.id # subscriptionId
    THEN doError(s, TRUE, "Invalid payload for 'error' packet", re)
    ELSE doData(doAbort(s, "ServerError", re),
                [networkError |-> FALSE, data |-> FALSE,
                 errors |-> TRUE, message |-> ""], re)

\* error while connected: 518-528
onErrorFrame(s, m, re) ==
    IF m.payload = "none" \/ m.id # subscriptionId
    THEN doError(s, TRUE, "Invalid payload for 'error' packet", re)
    ELSE doAbort(doData(s, [networkError |-> FALSE, data |-> FALSE,
                            errors |-> TRUE, message |-> ""], re),
                 "ServerError", re)

\* onComplete closing with the reason of an error frame
onCompleteAsError(s, m, re) ==
    IF m.id # subscriptionId
    THEN doError(s, TRUE, "Invalid payload for 'complete' packet", re)
    ELSE doAbort(s, "ServerError", re)

\* complete while connected: 529-534
onComplete(s, m, re) ==
    IF m.id # subscriptionId
    THEN doError(s, TRUE, "Invalid payload for 'complete' packet", re)
    ELSE doAbort(s, "Server", re)

\* dispatch answering a ping with a pong that has no payload
dispatchPongEmpty(s, m, re) ==
    IF m.type = "ping" THEN send(s, Msg("pong", "", "none"), re)
    ELSE IF s.state = "opening" THEN
        IF m.type # "connection_ack" THEN onInvalidAck(s, m, re) ELSE onAck(s, re)
    ELSE IF m.type = "next" THEN onNext(s, m, re)
    ELSE IF m.type = "error" THEN onErrorFrame(s, m, re)
    ELSE IF m.type = "complete" THEN onComplete(s, m, re)
    ELSE doError(s, TRUE, "Unknown message type from WebSocket server", re)

\* dispatch ignoring, while connected, the frames of a type it does not know
dispatchIgnoringUnknown(s, m, re) ==
    IF m.type = "ping" THEN send(s, Msg("pong", "", m.payload), re)
    ELSE IF s.state = "opening" THEN
        IF m.type # "connection_ack" THEN onInvalidAck(s, m, re) ELSE onAck(s, re)
    ELSE IF m.type = "next" THEN onNext(s, m, re)
    ELSE IF m.type = "error" THEN onErrorFrame(s, m, re)
    ELSE IF m.type = "complete" THEN onComplete(s, m, re)
    ELSE s

\* the state machine of onmessage: 478-539
dispatch(s, m, re) ==
    IF m.type = "ping" THEN send(s, Msg("pong", "", m.payload), re)
    ELSE IF s.state = "opening" THEN
        IF m.type # "connection_ack" THEN onInvalidAck(s, m, re) ELSE onAck(s, re)
    ELSE IF m.type = "next" THEN onNext(s, m, re)
    ELSE IF m.type = "error" THEN onErrorFrame(s, m, re)
    ELSE IF m.type = "complete" THEN onComplete(s, m, re)
    ELSE doError(s, TRUE, "Unknown message type from WebSocket server", re)

\* onmessage without its call of the policy's onInbound
onmessageNoHook(s, m, consumed, re) ==
    IF s.aborted THEN s
    ELSE IF m.type = "#nonstring"
    THEN doError(doError(s, TRUE, "WebSocket data is not string", re),
                 TRUE, "WebSocket message is not valid JSON", re)
    ELSE IF m.type = "#badjson"
    THEN doError(s, TRUE, "WebSocket message is not valid JSON", re)
    ELSE IF m.type = "#null"
    THEN doError(s, TRUE, "WebSocket message is null", re)
    ELSE dispatch(s, m, re)

\* webSocket.onmessage: 455-540.  consumed: the policy's onInbound returns false.
onmessage(s, m, consumed, re) ==
    IF s.aborted THEN s
    ELSE IF m.type = "#nonstring"
    THEN doError(doError(s, TRUE, "WebSocket data is not string", re),
                 TRUE, "WebSocket message is not valid JSON", re)
    ELSE IF m.type = "#badjson"
    THEN doError(s, TRUE, "WebSocket message is not valid JSON", re)
    ELSE IF m.type = "#null"
    THEN doError(s, TRUE, "WebSocket message is null", re)
    ELSE LET a == Hook(s, "hook.onInbound", "", "hOnInbound", re)
         IN IF s.timeoutHandler /\ consumed THEN a ELSE dispatch(a, m, re)

\* onclose closing the session without a Result for the data sink
oncloseQuiet(s, re) ==
    IF s.aborted THEN s ELSE doAbort(logError(s, "close"), "Error", re)

\* webSocket.onclose: 543-556
onclose(s, re) ==
    IF s.aborted THEN s
    ELSE doError(logError(s, "close"), TRUE, "WebSocket connection unexpectedly closed", re)

\* the handler of the payload making the socket whatever aborted says
onPayloadUnguarded(s) ==
    [s EXCEPT !.pc = "socket", !.readyState = CONNECTING,
              !.state = "opening", !.timeoutHandler = s.policy]

\* the handler of the fulfilled payloadPromise: 417-420, 443, 559-566
onPayload(s) ==
    IF s.aborted THEN [s EXCEPT !.pc = "done"]
    ELSE [s EXCEPT !.pc = "socket", !.readyState = CONNECTING,
                   !.state = "opening", !.timeoutHandler = s.policy]

-----------------------------------------------------------------------------
(* Actions of the session *)

\* executeSubscription is called: 353-361, 395-415, 575-578
ExecuteSubscription(policy, logger, generator) ==
    /\ UNCHANGED <<raw, store, subs>>
    /\ sub.pc = "idle"
    /\ sub' = [sub EXCEPT !.pc = IF generator THEN "payload" ELSE "nopayload",
                          !.policy = policy, !.logger = logger,
                          !.activeSubscriptions = @ + 1]

\* payloadPromise is fulfilled: 417-420, 443, 559-566
PayloadFulfilled ==
    /\ UNCHANGED <<raw, store, subs>>
    /\ sub.pc \in {"payload", "nopayload"}
    /\ sub' = onPayload(sub)

\* generatePayload threw or its promise is rejected: 410-411, 569-571
PayloadRejected(isString, re) ==
    /\ UNCHANGED <<raw, store, subs>>
    /\ sub.pc = "payload"
    /\ sub' = [doError(sub, isString, "payload failed", re) EXCEPT !.pc = "done"]

More == sub.events < MaxEvents
Counted(s) == [s EXCEPT !.events = @ + 1]

\* the caller calls the returned abort(): 577
Abort(re) ==
    /\ UNCHANGED <<raw, store, subs>>
    /\ sub.pc # "idle" /\ (sub.aborted => More)
    /\ sub' = doAbort(IF sub.aborted /\ sub.pc = "socket" /\ sub.readyState # CLOSED
                      THEN Counted(sub) ELSE sub, "Client", re)

\* the timeout policy calls api.abort from a timer: 562
PolicyAbort(re) ==
    /\ UNCHANGED <<raw, store, subs>>
    /\ sub.timeoutHandler /\ (sub.aborted => More)
    /\ sub' = doAbort(IF sub.aborted /\ sub.pc = "socket" /\ sub.readyState # CLOSED
                      THEN Counted(sub) ELSE sub, "Timeout", re)

\* the timeout policy calls api.send from a timer: 561
PolicySend(m, re) ==
    /\ UNCHANGED <<raw, store, subs>>
    /\ sub.timeoutHandler /\ More
    /\ sub' = send(IF ~sub.aborted /\ sub.readyState = OPEN THEN Counted(sub) ELSE sub,
                   m, re)

\* the socket's open event
SocketOpen(re) ==
    /\ UNCHANGED <<raw, store, subs>>
    /\ sub.pc = "socket" /\ sub.readyState = CONNECTING
    /\ sub' = onopen([sub EXCEPT !.readyState = OPEN], re)

\* a message event
SocketMessage(m, consumed, re) ==
    /\ UNCHANGED <<raw, store, subs>>
    /\ sub.pc = "socket" /\ sub.readyState \in {OPEN, CLOSING}
    /\ More
    /\ sub' = onmessage(IF sub.aborted THEN [Counted(sub) EXCEPT !.late = TRUE]
                                        ELSE Counted(sub),
                        m, consumed, re)

\* the socket's close event: the connection failed, the server closed it, or
\* the closing that close() started has finished
SocketClose(re) ==
    /\ UNCHANGED <<raw, store, subs>>
    /\ sub.pc = "socket" /\ sub.readyState # CLOSED
    /\ sub' = onclose([sub EXCEPT !.readyState = CLOSED], re)

SubNext ==
    \/ \E p, l, g \in BOOLEAN : ExecuteSubscription(p, l, g)
    \/ PayloadFulfilled
    \/ \E isString \in BOOLEAN, re \in Points(sub, {"onData", "onClose"}) :
          PayloadRejected(isString, re)
    \/ \E re \in Points(sub, {"onClose", "hOnClose"}) : Abort(re)
    \/ \E re \in Points(sub, {"onClose", "hOnClose"}) : PolicyAbort(re)
    \/ \E re \in Points(sub, {"hOnOutbound"}) : PolicySend(Msg("ping", "", "none"), re)
    \/ \E re \in Points(sub, {"hOnOpen", "hOnOutbound"}) : SocketOpen(re)
    \/ \E m \in Frames \cup RawFrames,
          consumed \in IF sub.timeoutHandler /\ ~sub.aborted THEN BOOLEAN ELSE {FALSE},
          re \in Points(sub, Reentry) :
          SocketMessage(m, consumed, re)
    \/ \E re \in Points(sub, {"onData", "onClose", "hOnClose"}) : SocketClose(re)

SubInit == sub = InitSub

-----------------------------------------------------------------------------
(* Several sessions of one client *)

\* The sessions of the client share this.activeSubscriptions.  A session is
\* kept without its log; closures and decrements count, for each session, the
\* calls of the close callback and the decrements of the counter it has made.
InitSubs ==
    [ activeSubscriptions |-> 0,
      sessions |-> [i \in 1..MaxSessions |-> InitSub],
      closures |-> [i \in 1..MaxSessions |-> 0],
      decrements |-> [i \in 1..MaxSessions |-> 0] ]

\* the frames offered to the sessions of a client
SessionFrames ==
    {Msg("connection_ack", "", "none"), Msg("pong", "", "none"), Msg("ping", "", "data"),
     Msg("next", "1", "data"), Msg("error", "1", "errors"), Msg("complete", "1", "none"),
     Msg("#badjson", "", "")}

\* session i as its handlers see it: the counter is the client's
Session(c, i) ==
    [c.sessions[i] EXCEPT !.activeSubscriptions = c.activeSubscriptions, !.log = <<>>]

\* a handler of session i returned and left the session as t
Returned(c, i, t) ==
    [c EXCEPT !.activeSubscriptions = t.activeSubscriptions,
              !.sessions[i] = [t EXCEPT !.log = <<>>, !.activeSubscriptions = 0,
                                        !.late = FALSE],
              !.closures[i] = @ + Len(SelectSeq(t.log, LAMBDA e : e.k = "close")),
              !.decrements[i] = @ + (c.activeSubscriptions - t.activeSubscriptions)]

\* executeSubscription is called for a new session: 353-361, 395-415, 575-578
SessionStarted(i, policy, generator) ==
    /\ UNCHANGED <<raw, store, sub>>
    /\ subs.sessions[i].pc = "idle"
    /\ \A j \in 1..(i - 1) : subs.sessions[j].pc # "idle"
    /\ subs' = [subs EXCEPT !.activeSubscriptions = @ + 1,
                            !.sessions[i].pc = IF generator THEN "payload" ELSE "nopayload",
                            !.sessions[i].policy = policy]

\* payloadPromise of session i is fulfilled: 417-420, 443, 559-566
SessionPayloadFulfilled(i) ==
    /\ UNCHANGED <<raw, store, sub>>
    /\ subs.sessions[i].pc \in {"payload", "nopayload"}
    /\ LET s == Session(subs, i)
       IN subs' = Returned(subs, i, onPayload(s))

\* generatePayload of session i threw or its promise is rejected: 410-411, 569-571
SessionPayloadRejected(i, re) ==
    /\ UNCHANGED <<raw, store, sub>>
    /\ subs.sessions[i].pc = "payload"
    /\ subs' = Returned(subs, i,
                  [doError(Session(subs, i), TRUE, "payload failed", re) EXCEPT !.pc = "done"])

\* abort() of session i is called by the caller, or api.abort by its policy: 577, 562
SessionAbort(i, reason, re) ==
    /\ UNCHANGED <<raw, store, sub>>
    /\ subs.sessions[i].pc # "idle"
    /\ reason = "Timeout" => subs.sessions[i].timeoutHandler
    /\ subs' = Returned(subs, i, doAbort(Session(subs, i), reason, re))

\* the open event of the socket of session i
SessionSocketOpen(i, re) ==
    /\ UNCHANGED <<raw, store, sub>>
    /\ subs.sessions[i].pc = "socket" /\ subs.sessions[i].readyState = CONNECTING
    /\ subs' = Returned(subs, i, onopen([Session(subs, i) EXCEPT !.readyState = OPEN], re))

\* a message event of the socket of session i
SessionSocketMessage(i, m, consumed, re) ==
    /\ UNCHANGED <<raw, store, sub>>
    /\ subs.sessions[i].pc = "socket" /\ subs.sessions[i].readyState \in {OPEN, CLOSING}
    /\ subs' = Returned(subs, i, onmessage(Session(subs, i), m, consumed, re))

\* the close event of the socket of session i
SessionSocketClose(i, re) ==
    /\ UNCHANGED <<raw, store, sub>>
    /\ subs.sessions[i].pc = "socket" /\ subs.sessions[i].readyState # CLOSED
    /\ subs' = Returned(subs, i, onclose([Session(subs, i) EXCEPT !.readyState = CLOSED], re))

SubsNext ==
    \/ \E i \in 1..MaxSessions, p, g \in BOOLEAN : SessionStarted(i, p, g)
    \/ \E i \in 1..MaxSessions : SessionPayloadFulfilled(i)
    \/ \E i \in 1..MaxSessions :
          \E re \in Points(subs.sessions[i], {"onData", "onClose"}) :
             SessionPayloadRejected(i, re)
    \/ \E i \in 1..MaxSessions, reason \in {"Client", "Timeout"} :
          \E re \in Points(subs.sessions[i], {"onClose", "hOnClose"}) :
             SessionAbort(i, reason, re)
    \/ \E i \in 1..MaxSessions :
          \E re \in Points(subs.sessions[i], {"hOnOpen", "hOnOutbound"}) :
             SessionSocketOpen(i, re)
    \/ \E i \in 1..MaxSessions, m \in SessionFrames :
          \E consumed \in IF subs.sessions[i].timeoutHandler /\ ~subs.sessions[i].aborted
                          THEN BOOLEAN ELSE {FALSE},
             re \in Points(subs.sessions[i], Reentry) :
             SessionSocketMessage(i, m, consumed, re)
    \/ \E i \in 1..MaxSessions :
          \E re \in Points(subs.sessions[i], {"onData", "onClose", "hOnClose"}) :
             SessionSocketClose(i, re)

SubsInit == subs = InitSubs


Init == RawInitDefault /\ CacheInit /\ SubInit /\ SubsInit

SpecCache == Init /\ [][CacheNext]_vars

\* a client whose table has MaxEntries entries
AllocInit ==
    /\ RawInitDefault /\ SubInit /\ SubsInit
    /\ \E f \in [1..MaxEntries -> EntryChoices], max \in AllocLimits : store = AllocStore(f, max)

SpecAlloc == AllocInit /\ [][AllocNext]_vars

\* the client of any configuration
InitConfigured == RawInit /\ CacheInit /\ SubInit /\ SubsInit

SpecRaw == InitConfigured /\ [][RawNext]_vars

SpecSub == Init /\ [][SubNext]_vars

SpecSubs == Init /\ [][SubsNext]_vars

-----------------------------------------------------------------------------
(* Properties of the subscription session *)

Kinds(s, k) == SelectSeq(s.log, LAMBDA e : e.k = k)
Count(s, k) == Len(Kinds(s, k))
\* what a handler that took s to t appended to the log
Added(s, t) == SubSeq(t.log, Len(s.log) + 1, Len(t.log))
CountIn(q, k) == Len(SelectSeq(q, LAMBDA e : e.k = k))
\* the place of the first k in q, 0 when there is none
Pos(q, k) ==
    IF \E i \in 1..Len(q) : q[i].k = k
    THEN CHOOSE i \in 1..Len(q) : q[i].k = k /\ \A j \in 1..(i - 1) : q[j].k # k
    ELSE 0
Sent(s, type) == SelectSeq(s.log, LAMBDA e : e.k = "send" /\ e.a = type)
Rejections(s) == Len(SelectSeq(s.log, LAMBDA e : e.k = "promise" /\ e.a = "reject"))

\* a session whose socket is open for a message event that its handler will look at
Receiving(s) == s.pc = "socket" /\ ~s.aborted /\ s.readyState = OPEN
\* what the policy's onInbound may answer in s
Answers(s) == IF s.timeoutHandler THEN BOOLEAN ELSE {FALSE}

CloseCode(reason) == IF reason = "Timeout" THEN "4408" ELSE "1000"

C5_OncePerSession(s) ==
    /\ Count(s, "close") <= 1
    /\ Count(s, "hook.onClose") <= 1
    /\ Rejections(s) <= 1
    /\ s.activeSubscriptions = IF s.pc = "idle" \/ s.aborted THEN 0 ELSE 1

\* C5 as stated: the close callback, the policy's onClose, the decrement of the
\* counter, the rejection of the connected promise and the call of the socket's
\* close() each happen at most once in a session.
C5_EveryEffectAtMostOnce ==
    C5_OncePerSession(sub) /\ Count(sub, "ws.close") <= 1

\* C5, amended: the close callback, the policy's onClose, the decrement and the
\* rejection happen at most once in a session, and an abort of a session that is
\* already aborted does nothing but call the socket's close() again while the
\* socket is CLOSING (never once it is CLOSED).
C5_AbortIdempotent ==
    /\ C5_OncePerSession(sub)
    /\ sub.aborted =>
          \A reason \in {"Client", "Timeout"}, re \in Reentry :
             LET t == doAbort(sub, reason, re)
             IN \/ t = sub
                \/ /\ sub.pc = "socket" /\ sub.readyState = CLOSING
                   /\ t = Emit(sub, Ev("ws.close", CloseCode(reason)))

\* abort was called again while the socket was closing
C5_Witness == Count(sub, "close") = 1 /\ Count(sub, "ws.close") = 2

\* the reason the handling of message m closes the session with, "" for none,
\* when no callback aborts: the table of C6
Violation(s, m) ==
    IF m \in RawFrames THEN TRUE
    ELSE IF m.type = "ping" THEN FALSE
    ELSE IF s.state = "opening" THEN m.type # "connection_ack"
    ELSE IF m.type = "next" THEN ~(m.id = "1" /\ m.payload \in {"data", "errors", "both"})
    ELSE IF m.type = "error" THEN ~(m.id = "1" /\ m.payload # "none")
    ELSE IF m.type = "complete" THEN m.id # "1"
    ELSE TRUE
ReasonOf(s, m, consumed) ==
    IF m \notin RawFrames /\ s.timeoutHandler /\ consumed THEN ""
    ELSE IF Violation(s, m) THEN "Error"
    ELSE IF m.type = "error" /\ s.state = "connected" THEN "ServerError"
    ELSE IF m.type = "complete" /\ s.state = "connected" THEN "Server"
    ELSE ""

\* a handler took s, not aborted, to t; its event closes with reason nat ("": it
\* does not close), and re is where a callback aborts
ClosedFor(s, t, nat, re) ==
    LET c == Kinds(t, "close")
    IN /\ Len(c) <= 1
       /\ nat # "" => Len(c) = 1
       /\ re = "none" /\ nat = "" => c = <<>>
       /\ Len(c) = 1 =>
             c[1].a \in (IF re = "none" \/ nat \in {"Client", "Timeout"}
                         THEN {nat}
                         ELSE {nat} \cup (IF re \in CallerPoints
                                          THEN {"Client"} ELSE {"Timeout"}))

\* C6: the close callback is invoked at most once, and with the reason of the
\* first closing event: Client for a caller's abort, Timeout for the policy's,
\* Server for complete, ServerError for error, Error for a protocol violation,
\* a payload failure or an unexpected close of the socket.
C6_ClosedOnceWithFirstReason ==
    /\ Count(sub, "close") <= 1
    /\ sub.pc # "idle" /\ ~sub.aborted =>
          \A re \in Reentry :
             /\ ClosedFor(sub, doAbort(sub, "Client", re), "Client", re)
             /\ sub.timeoutHandler =>
                   /\ ClosedFor(sub, doAbort(sub, "Timeout", re), "Timeout", re)
                   /\ ClosedFor(sub, send(sub, Msg("ping", "", "none"), re), "", re)
             /\ sub.pc = "payload" =>
                   \A isString \in BOOLEAN :
                      ClosedFor(sub, doError(sub, isString, "payload failed", re), "Error", re)
             /\ sub.pc = "socket" /\ sub.readyState = CONNECTING =>
                   ClosedFor(sub, onopen([sub EXCEPT !.readyState = OPEN], re), "", re)
             /\ sub.pc = "socket" /\ sub.readyState # CLOSED =>
                   ClosedFor(sub, onclose([sub EXCEPT !.readyState = CLOSED], re), "Error", re)
             /\ sub.pc = "socket" /\ sub.readyState \in {OPEN, CLOSING} =>
                   \A m \in Frames \cup RawFrames, consumed \in BOOLEAN :
                      ClosedFor(sub, onmessage(sub, m, consumed, re),
                                ReasonOf(sub, m, consumed), re)

\* a complete frame closed the session, and the socket's close event came afterwards
C6_Witness ==
    /\ Count(sub, "close") = 1 /\ Kinds(sub, "close")[1].a = "Server"
    /\ sub.readyState = CLOSED

\* C7: once aborted is set it stays set, and from then on the data sink is not
\* invoked and no frame is sent, in the handler that set it and in every later one.
C7_NothingAfterAbort ==
    /\ sub.aborted <=> Count(sub, "close") = 1
    /\ \A i, j \in 1..Len(sub.log) :
          i < j /\ sub.log[i].k \in {"hook.onClose", "close"}
             => sub.log[j].k \notin {"data", "send"}
    /\ sub.aborted /\ sub.pc = "socket" =>
          /\ \A m \in Frames \cup RawFrames, consumed \in BOOLEAN :
                onmessage(sub, m, consumed, "none") = sub
          /\ send(sub, Msg("ping", "", "none"), "none") = sub
          /\ onclose([sub EXCEPT !.readyState = CLOSED], "none").log = sub.log
          /\ doAbort(sub, "Client", "none").aborted

\* a message event reached a session that was connected and then aborted
C7_Witness == sub.aborted /\ sub.late /\ sub.state = "connected"

\* the handling of a frame that is a protocol violation while opening took s to t
OpeningViolation(s, t, reason) ==
    LET add == Added(s, t)
    IN /\ CountIn(add, "data") = 1
       /\ add[Pos(add, "data")].res.networkError /\ add[Pos(add, "data")].res.errors
       /\ CountIn(add, "close") = 1
       /\ add[Pos(add, "close")].a = reason
       /\ Pos(add, "data") < Pos(add, "close")
       /\ s.logger => CountIn(add, "logger") = 1 /\ Pos(add, "logger") < Pos(add, "data")
       /\ CountIn(add, "send") = 0
       /\ t.aborted /\ t.state = "opening"

\* C8 as stated: while opening, every inbound frame other than connection_ack
\* and ping delivers one network-error Result and then closes with Error, after
\* the logger was called if there is one; no subscribe is sent in the session.
C8_EveryOpeningFrameCloses ==
    /\ sub.state = "opening" => Sent(sub, "subscribe") = <<>>
    /\ Receiving(sub) /\ sub.state = "opening" =>
          \A m \in Frames, consumed \in Answers(sub) :
             m.type \notin {"connection_ack", "ping"}
                => OpeningViolation(sub, onmessage(sub, m, consumed, "none"), "Error")

\* C8, amended: the same of every such frame that the policy's onInbound neither
\* consumes nor answers by aborting; the reason is Client when the data sink
\* calls abort while it is given the Result.
C8_OpeningViolationCloses ==
    /\ sub.state = "opening" => Sent(sub, "subscribe") = <<>>
    /\ Receiving(sub) /\ sub.state = "opening" =>
          \A m \in Frames, re \in Reentry \ {"hOnInbound"} :
             m.type \notin {"connection_ack", "ping"}
                => OpeningViolation(sub, onmessage(sub, m, FALSE, re),
                                    IF re = "onData" THEN "Client" ELSE "Error")

\* a session closed by a frame that was no connection_ack, with a logger
C8_Witness ==
    /\ sub.state = "opening" /\ sub.aborted /\ Count(sub, "logger") = 1
    /\ \E i \in 1..Len(sub.log) :
          /\ sub.log[i].k = "data"
          /\ sub.log[i].res.message = "Invalid connection response from WebSocket server"

\* the handling of connection_ack took s to t
Acked(s, t) ==
    LET add == Added(s, t)
    IN /\ t.state = "connected" /\ ~t.aborted
       /\ t.connected = "resolved"
       /\ CountIn(add, "onOpen") = 1
       /\ SelectSeq(add, LAMBDA e : e.k = "send")
             = <<EvMsg("send", Msg("subscribe", "1", "data"))>>

\* connection_init and subscribe are sent at most once, in this order, and
\* subscribe only once connection_ack was handled
HandshakeOrder(s) ==
    /\ Len(Sent(s, "connection_init")) <= 1
    /\ Len(Sent(s, "subscribe")) <= 1
    /\ \A i \in 1..Len(s.log) :
          s.log[i].k = "send" /\ s.log[i].a = "subscribe"
             => /\ s.state = "connected"
                /\ \E j \in 1..(i - 1) :
                      s.log[j].k = "send" /\ s.log[j].a = "connection_init"

\* C9 as stated: every connection_ack while opening makes the session connected,
\* resolves the connected promise, invokes the open callback once and sends one
\* subscribe with the operation and id "1"; and the handshake order holds.
C9_EveryAckConnects ==
    /\ HandshakeOrder(sub)
    /\ Receiving(sub) /\ sub.state = "opening" =>
          \A consumed \in Answers(sub) :
             Acked(sub, onmessage(sub, Msg("connection_ack", "", "none"), consumed, "none"))

\* C9, amended: the same of a connection_ack that the policy's onInbound does
\* not consume, when no callback or hook calls abort while it is handled.
C9_AckConnects ==
    /\ HandshakeOrder(sub)
    /\ Receiving(sub) /\ sub.state = "opening" =>
          Acked(sub, onmessage(sub, Msg("connection_ack", "", "none"), FALSE, "none"))

\* a connected session that has sent its subscribe
C9_Witness ==
    /\ sub.state = "connected" /\ ~sub.aborted /\ sub.connected = "resolved"
    /\ Len(Sent(sub, "subscribe")) = 1 /\ Count(sub, "onOpen") = 1

\* the handling of next frame m while connected took s to t
NextHandled(s, t, m) ==
    LET add == Added(s, t)
        d == add[Pos(add, "data")].res
    IN /\ CountIn(add, "data") = 1
       /\ IF m.id = "1" /\ m.payload \in {"data", "errors", "both"}
          THEN /\ ~d.networkError
               /\ d.data = (m.payload \in {"data", "both"})
               /\ d.errors = (m.payload \in {"errors", "both"})
               /\ CountIn(add, "close") = 0
               /\ t.state = "connected" /\ ~t.aborted
          ELSE /\ d.networkError /\ d.errors
               /\ CountIn(add, "close") = 1
               /\ add[Pos(add, "close")].a = "Error"
               /\ Pos(add, "data") < Pos(add, "close")
               /\ t.aborted

\* C10 as stated: while connected, every next frame with id "1" and data or
\* errors is given to the data sink once with networkError false and leaves the
\* session connected; every other next frame delivers an error Result and closes
\* with Error.
C10_EveryNextDelivered ==
    Receiving(sub) /\ sub.state = "connected" =>
       \A m \in Frames, consumed \in Answers(sub) :
          m.type = "next" => NextHandled(sub, onmessage(sub, m, consumed, "none"), m)

\* C10, amended: the same of a next frame that the policy's onInbound does not
\* consume, when no callback or hook calls abort while it is handled.
C10_NextDelivered ==
    Receiving(sub) /\ sub.state = "connected" =>
       \A m \in Frames :
          m.type = "next" => NextHandled(sub, onmessage(sub, m, FALSE, "none"), m)

\* a connected session whose last act was to deliver the payload of a next frame
C10_Witness ==
    /\ sub.state = "connected" /\ ~sub.aborted /\ sub.log # <<>>
    /\ sub.log[Len(sub.log)].k = "data" /\ ~sub.log[Len(sub.log)].res.networkError

\* the handling of error frame m while connected took s to t
ErrorHandled(s, t, m) ==
    LET add == Added(s, t)
    IN /\ CountIn(add, "close") = 1
       /\ t.aborted
       /\ IF m.id = "1"
          THEN m.payload # "none" =>
                  /\ CountIn(add, "data") = 1
                  /\ add[Pos(add, "data")].res
                        = [networkError |-> FALSE, data |-> FALSE, errors |-> TRUE,
                           message |-> ""]
                  /\ add[Pos(add, "close")].a = "ServerError"
                  /\ Pos(add, "data") < Pos(add, "close")
          ELSE add[Pos(add, "close")].a = "Error"

\* the handling of complete frame m while connected took s to t
CompleteHandled(s, t, m) ==
    LET add == Added(s, t)
    IN /\ CountIn(add, "close") = 1
       /\ t.aborted
       /\ IF m.id = "1"
          THEN CountIn(add, "data") = 0 /\ add[Pos(add, "close")].a = "Server"
          ELSE add[Pos(add, "close")].a = "Error"

\* C11 as stated: while connected, every error frame with id "1" and a payload
\* gives one Result with only errors to the data sink and then closes with
\* ServerError; every complete frame with id "1" closes with Server and gives
\* nothing to the data sink; either frame with another id closes with Error.
C11_EveryErrorAndCompleteCloses ==
    Receiving(sub) /\ sub.state = "connected" =>
       \A m \in Frames, consumed \in Answers(sub) :
          /\ m.type = "error" => ErrorHandled(sub, onmessage(sub, m, consumed, "none"), m)
          /\ m.type = "complete" =>
                CompleteHandled(sub, onmessage(sub, m, consumed, "none"), m)

\* C11, amended: the same of an error or complete frame that the policy's
\* onInbound does not consume, when no callback or hook calls abort while it is
\* handled.
C11_ErrorAndCompleteClose ==
    Receiving(sub) /\ sub.state = "connected" =>
       \A m \in Frames :
          /\ m.type = "error" => ErrorHandled(sub, onmessage(sub, m, FALSE, "none"), m)
          /\ m.type = "complete" => CompleteHandled(sub, onmessage(sub, m, FALSE, "none"), m)

\* a connected session was given the errors of an error frame and then closed
\* with ServerError
C11_Witness ==
    /\ sub.state = "connected" /\ Count(sub, "close") = 1
    /\ Kinds(sub, "close")[1].a = "ServerError"
    /\ Count(sub, "data") = 1
    /\ ~Kinds(sub, "data")[1].res.networkError /\ Kinds(sub, "data")[1].res.errors

\* the handling of a frame gave a synthetic error Result to the data sink and
\* then closed the session with Error
ClosedWithError(s, t) ==
    LET add == Added(s, t)
    IN /\ CountIn(add, "data") = 1
       /\ add[Pos(add, "data")].res.networkError /\ add[Pos(add, "data")].res.errors
       /\ CountIn(add, "close") = 1
       /\ add[Pos(add, "close")].a = "Error"
       /\ Pos(add, "data") < Pos(add, "close")
       /\ t.aborted

KnownTypes == {"next", "error", "complete", "ping"}

\* C12 as stated: while connected, every inbound frame whose type is not next,
\* error, complete or ping (a second connection_ack and a pong are such frames)
\* gives a synthetic error Result to the data sink and then closes with Error.
C12_EveryUnknownFrameCloses ==
    Receiving(sub) /\ sub.state = "connected" =>
       \A m \in Frames, consumed \in Answers(sub) :
          m.type \notin KnownTypes
             => ClosedWithError(sub, onmessage(sub, m, consumed, "none"))

\* C12, amended: the same of every such frame that the policy's onInbound does
\* not consume, when no callback or hook calls abort while it is handled.
C12_UnknownFrameCloses ==
    Receiving(sub) /\ sub.state = "connected" =>
       \A m \in Frames :
          m.type \notin KnownTypes => ClosedWithError(sub, onmessage(sub, m, FALSE, "none"))

\* a connected session was closed by a frame of a type it does not handle
C12_Witness ==
    /\ sub.state = "connected" /\ sub.aborted
    /\ \E i \in 1..Len(sub.log) :
          /\ sub.log[i].k = "data"
          /\ sub.log[i].res.message = "Unknown message type from WebSocket server"

\* the frames a handler that took s to t sent
SentIn(s, t) == SelectSeq(Added(s, t), LAMBDA e : e.k = "send")

\* the handling of ping frame m took s to t
PingAnswered(s, t, m) ==
    /\ SentIn(s, t) = <<EvMsg("send", Msg("pong", "", m.payload))>>
    /\ CountIn(Added(s, t), "data") = 0
    /\ CountIn(Added(s, t), "close") = 0
    /\ t.state = s.state /\ ~t.aborted
    /\ t.readyState = s.readyState /\ t.connected = s.connected

\* C13: while opening and while connected, a ping frame that the policy does
\* not consume makes the session send one pong with the payload of the ping, if
\* the socket is open, and changes no state, gives nothing to the data sink and
\* closes nothing; when the policy aborts in a hook while the ping is handled,
\* still nothing reaches the data sink and the session closes with Timeout.
C13_PingAnswered ==
    /\ sub.pc = "socket" /\ ~sub.aborted => sub.readyState # CLOSING
    /\ Receiving(sub) =>
          \A m \in Frames :
             m.type = "ping" =>
                /\ PingAnswered(sub, onmessage(sub, m, FALSE, "none"), m)
                /\ \A re \in Reentry :
                      LET t == onmessage(sub, m, FALSE, re)
                      IN /\ CountIn(Added(sub, t), "data") = 0
                         /\ Len(SentIn(sub, t)) <= 1
                         /\ t.state = sub.state
                         /\ \A i \in 1..Len(Added(sub, t)) :
                               Added(sub, t)[i].k = "close" => Added(sub, t)[i].a = "Timeout"

\* a session that is still opening has answered a ping that had a payload
C13_Witness ==
    /\ sub.state = "opening" /\ ~sub.aborted
    /\ Len(Sent(sub, "pong")) = 1
    /\ Sent(sub, "pong")[1].msg.payload = "data"

\* the socket of s has changed to CLOSED and its close event is delivered
SocketClosed(s) == [s EXCEPT !.readyState = CLOSED]
\* the socket of s has changed to OPEN and its open event is delivered
SocketOpened(s) == [s EXCEPT !.readyState = OPEN]

\* C14: a close event of the socket that comes while the session is not aborted
\* gives one diagnostic Result to the data sink and then closes the session
\* with Error; a close event that comes after abort() closed the socket gives
\* the data sink and the close callback nothing, whatever the callbacks do.
C14_SocketCloseEvent ==
    sub.pc = "socket" /\ sub.readyState # CLOSED =>
       IF sub.aborted
       THEN \A re \in Reentry \cup {"none"} :
               LET t == onclose(SocketClosed(sub), re)
               IN /\ CountIn(Added(sub, t), "data") = 0
                  /\ CountIn(Added(sub, t), "close") = 0
                  /\ CountIn(Added(sub, t), "hook.onClose") = 0
       ELSE LET t == onclose(SocketClosed(sub), "none")
                add == Added(sub, t)
            IN /\ ClosedWithError(sub, t)
               /\ add[Pos(add, "data")].res.message
                     = "WebSocket connection unexpectedly closed"
               /\ ~add[Pos(add, "data")].res.data
               /\ \A re \in Reentry :
                     LET u == onclose(SocketClosed(sub), re)
                     IN /\ CountIn(Added(sub, u), "data") = 1
                        /\ CountIn(Added(sub, u), "close") = 1
                        /\ u.aborted

\* the socket of a session that was receiving closed; the session reported it
\* and closed with Error
C14_Witness ==
    /\ sub.pc = "socket" /\ sub.readyState = CLOSED /\ sub.aborted
    /\ Count(sub, "send") >= 1
    /\ Count(sub, "close") = 1 /\ Kinds(sub, "close")[1].a = "Error"
    /\ Count(sub, "data") = 1
    /\ Kinds(sub, "data")[1].res.message = "WebSocket connection unexpectedly closed"

\* the events of a socket: a session whose log has none never had one
SocketEvents(q) ==
    SelectSeq(q, LAMBDA e : e.k \in {"send", "ws.close", "hook.onOpen", "hook.onInbound",
                                     "hook.onOutbound", "hook.onAck", "onOpen"})

\* C15: when generatePayload throws or its promise is rejected before the
\* session is aborted, the data sink gets exactly one network-error Result, then
\* the close callback is called with Error and the connected promise is
\* rejected; the session is then done without a socket: nothing was sent or
\* closed on one and no timeout handler was attached.
C15_PayloadFailure ==
    /\ sub.pc = "payload" /\ ~sub.aborted =>
          /\ SocketEvents(sub.log) = <<>>
          /\ \A isString \in BOOLEAN :
                LET t == doError(sub, isString, "payload failed", "none")
                    add == Added(sub, t)
                IN /\ ClosedWithError(sub, t)
                   /\ add[Pos(add, "data")].res.message
                         = (IF isString THEN "payload failed"
                            ELSE "Error generating websocket connection payload")
                   /\ CountIn(add, "promise") = 1
                   /\ Pos(add, "close") < Pos(add, "promise")
                   /\ t.connected = "rejected" /\ Rejections(t) = 1
                   /\ SocketEvents(add) = <<>>
                   /\ t.readyState = CLOSED /\ ~t.timeoutHandler
          /\ \A isString \in BOOLEAN, re \in {"onData", "onClose"} :
                LET t == doError(sub, isString, "payload failed", re)
                IN /\ CountIn(Added(sub, t), "data") = 1
                   /\ CountIn(Added(sub, t), "close") = 1
                   /\ t.connected = "rejected" /\ SocketEvents(Added(sub, t)) = <<>>
    /\ sub.pc = "done" =>
          /\ sub.aborted /\ sub.connected = "rejected"
          /\ SocketEvents(sub.log) = <<>>
          /\ sub.readyState = CLOSED /\ ~sub.timeoutHandler

\* the payload generator of a session failed with an error that is not a string
C15_Witness ==
    /\ sub.pc = "done" /\ sub.connected = "rejected"
    /\ Count(sub, "data") = 1
    /\ Kinds(sub, "data")[1].res.message = "Error generating websocket connection payload"
    /\ Count(sub, "close") = 1 /\ Kinds(sub, "close")[1].a = "Error"

\* getActiveSubscriptions(): 72
getActiveSubscriptions(c) == c.activeSubscriptions

\* the executeSubscription calls of client c whose session has not closed
OpenSessions(c) ==
    {i \in 1..MaxSessions : c.sessions[i].pc # "idle" /\ ~c.sessions[i].aborted}

\* C16: getActiveSubscriptions() is the number of executeSubscription calls
\* whose session has not closed yet and is never negative; a session
\* decrements the counter when it closes, once, and calls the close callback
\* with that decrement.
C16_ActiveSubscriptions ==
    /\ getActiveSubscriptions(subs) = Cardinality(OpenSessions(subs))
    /\ getActiveSubscriptions(subs) >= 0
    /\ \A i \in 1..MaxSessions :
          /\ subs.decrements[i] = (IF subs.sessions[i].aborted THEN 1 ELSE 0)
          /\ subs.closures[i] = subs.decrements[i]

\* one session has closed while another one of the same client is receiving
C16_Witness ==
    /\ getActiveSubscriptions(subs) = 1
    /\ \E i, j \in 1..MaxSessions :
          /\ subs.sessions[i].aborted /\ subs.decrements[i] = 1
          /\ Receiving(subs.sessions[j]) /\ subs.sessions[j].state = "connected"

\* Result r has no data when it has errors
Cleared(r) == r.errors => ~r.data
\* the Results that executeQueryRaw has resolved its promises with
RawResultsCleared ==
    \A i \in Calls : raw.calls[i].stage = "resolved" => Cleared(raw.calls[i].result)

\* C24: every Result that a caller is given, by executeQueryRaw as the value of
\* its promise or by a session as the argument of the data sink, has no data
\* when its errors are not empty.
C24_DataClearedWithErrors ==
    /\ RawResultsCleared
    /\ \A i \in 1..Len(sub.log) : sub.log[i].k = "data" => Cleared(sub.log[i].res)

\* session s as it is without a timeout policy: no handler, and no calls of hooks
WithoutPolicy(s) ==
    [s EXCEPT !.policy = FALSE, !.timeoutHandler = FALSE,
              !.log = SelectSeq(@, LAMBDA e : e.k \notin {"hook.onOpen", "hook.onInbound",
                                                          "hook.onOutbound", "hook.onAck",
                                                          "hook.onClose"})]

\* C28: for every parsed frame of a session that is not aborted the policy's
\* onInbound is called before anything else is done; if it returns false
\* nothing else is done: no state changes, nothing is sent, the data sink and
\* the close callback are not called; and with a policy whose hooks do nothing
\* every handler does what it does without a policy, whatever the caller's
\* callbacks do.
C28_PolicyHook ==
    /\ sub.pc = "socket" /\ ~sub.aborted /\ sub.timeoutHandler =>
          \A m \in Frames :
             /\ \A consumed \in BOOLEAN, re \in Reentry :
                   LET add == Added(sub, onmessage(sub, m, consumed, re))
                   IN add # <<>> /\ add[1] = Ev("hook.onInbound", "")
             /\ onmessage(sub, m, TRUE, "none") = Emit(sub, Ev("hook.onInbound", ""))
    /\ sub.pc = "socket" =>
          \A re \in {"none"} \cup CallerPoints :
             /\ \A m \in Frames \cup RawFrames :
                   WithoutPolicy(onmessage(sub, m, FALSE, re))
                      = onmessage(WithoutPolicy(sub), m, FALSE, re)
             /\ WithoutPolicy(onopen(SocketOpened(sub), re))
                   = onopen(WithoutPolicy(SocketOpened(sub)), re)
             /\ WithoutPolicy(onclose(SocketClosed(sub), re))
                   = onclose(WithoutPolicy(SocketClosed(sub)), re)
             /\ WithoutPolicy(doAbort(sub, "Client", re)) = doAbort(WithoutPolicy(sub), "Client", re)

\* the policy has consumed a frame of a connected session
C28_Witness ==
    /\ sub.state = "connected" /\ ~sub.aborted /\ sub.timeoutHandler
    /\ sub.log # <<>> /\ sub.log[Len(sub.log)] = Ev("hook.onInbound", "")

\* the hooks of the timeout policy other than onClose
PolicyHooks == {"hook.onOpen", "hook.onOutbound", "hook.onInbound", "hook.onAck"}

\* C37: once aborted is set, no hook of the timeout policy (onOpen, onOutbound,
\* onInbound, onAck) is called for the session, also when abort was called from
\* the caller's open callback or from the policy's onInbound hook; onClose is
\* the last hook that the policy gets, and it gets it at most once.
C37_NoHookAfterAbort ==
    /\ Count(sub, "hook.onClose") <= 1
    /\ \A i, j \in 1..Len(sub.log) :
          i < j /\ sub.log[i].k \in {"hook.onClose", "close"}
             => sub.log[j].k \notin PolicyHooks \cup {"hook.onClose"}

\* the payload of session s is still being generated
Generating(s) == s.pc \in {"payload", "nopayload"}

\* C38: abort() called while the payload is being generated calls the close
\* callback once, with Client, and rejects the connected promise; no socket is
\* made then or later: when the payload arrives the session is done without
\* one, and when its generation fails nothing is given to the data sink and
\* nothing is closed again.
C38_AbortBeforePayload ==
    /\ Generating(sub) /\ ~sub.aborted =>
          /\ sub.log = <<>>
          /\ \A re \in {"none", "onClose"} :
                LET t == doAbort(sub, "Client", re)
                IN /\ t.aborted /\ t.connected = "rejected"
                   /\ t.log = <<Ev("close", "Client"), Ev("promise", "reject")>>
                   /\ t.pc = sub.pc /\ t.readyState = CLOSED /\ ~t.timeoutHandler
    /\ Generating(sub) /\ sub.aborted =>
          /\ sub.log = <<Ev("close", "Client"), Ev("promise", "reject")>>
          /\ sub.connected = "rejected"
          /\ onPayload(sub) = [sub EXCEPT !.pc = "done"]
          /\ \A isString \in BOOLEAN, re \in Reentry :
                doError(sub, isString, "payload failed", re) = sub
          /\ \A re \in Reentry : doAbort(sub, "Client", re) = sub
    /\ sub.pc = "done" /\ Count(sub, "data") = 0 =>
          /\ sub.log = <<Ev("close", "Client"), Ev("promise", "reject")>>
          /\ sub.readyState = CLOSED /\ ~sub.timeoutHandler

\* the payload arrived, or its generation failed, after abort() had been called:
\* the session is done with one close call and nothing else
C38_Witness ==
    /\ sub.pc = "done" /\ sub.aborted
    /\ sub.log = <<Ev("close", "Client"), Ev("promise", "reject")>>
    /\ sub.activeSubscriptions = 0

-----------------------------------------------------------------------------
(* Properties of executeQueryRaw *)

\* the calls whose request is outstanding: no response yet, and not failed
Outstanding == {i \in Calls : raw.calls[i].stage \in {"transform", "construct", "fetch"}}

\* C3: every executeQueryRaw call increments pendingRequests exactly once, when
\* it is made, and decrements it exactly once, when its request fails (in the
\* transform hook, in the construction of the Request, in fetch) or its response
\* is received; the counter is never negative and equals the number of calls
\* whose request is outstanding, so it is zero when there is none.
C3_PendingRequests ==
    /\ raw.pendingRequests >= 0
    /\ raw.pendingRequests = Cardinality(Outstanding)
    /\ \A i \in Calls :
          /\ raw.calls[i].increments = IF raw.calls[i].stage = "idle" THEN 0 ELSE 1
          /\ raw.calls[i].decrements = IF i \in Outstanding \/ raw.calls[i].stage = "idle"
                                       THEN 0 ELSE 1

\* a call has failed in its request configuration and another is outstanding
C3_Witness ==
    /\ raw.pendingRequests = 1
    /\ \E i, j \in Calls :
          /\ raw.calls[i].stage = "resolved"
          /\ raw.calls[i].result.message = "Error initializing request configuration"
          /\ raw.calls[j].stage = "fetch"

\* C4: the result promise of executeQueryRaw is never rejected, and a call that
\* ends in a failure is resolved with a Result whose networkError is true and
\* whose errors are not empty.
C4_NeverRejects ==
    \A i \in Calls :
       /\ raw.calls[i].stage # "rejected"
       /\ raw.calls[i].stage = "resolved" /\ raw.calls[i].result.message # ""
             => raw.calls[i].result.networkError /\ raw.calls[i].result.errors

\* Response.status: the ends of the ranges of 147-158 and their neighbours
StatusCodes == {199, 200, 299, 300, 399, 400, 499, 500}
Is2xx(status) == status >= 200 /\ status <= 299
Is4xx(status) == status >= 400 /\ status <= 499

\* C25: the body of a response is parsed, with strict validation off, iff the
\* status is 2xx or 4xx, and with strict validation on, iff the status is 2xx
\* and the content type application/graphql-response+json or application/json,
\* or the status is 4xx and the content type application/graphql-response+json;
\* every other response resolves the call, without a parse of the body, with a
\* Result that has networkError true and the statusText as its one error.
C25_ResponseValidation ==
    \A i \in Calls :
       raw.calls[i].stage = "fetch" =>
          \A status \in StatusCodes, h \in ContentTypes, length \in ContentLengths :
             LET t == onResponse(raw, i, status, h, length, "")
                 parsed == t.calls[i].stage = "json"
                 accepted ==
                     IF raw.validateResponseContentType
                     THEN \/ /\ Is2xx(status)
                             /\ mediaType(h) \in {"application/graphql-response+json",
                                                  "application/json"}
                          \/ Is4xx(status) /\ mediaType(h) = "application/graphql-response+json"
                     ELSE Is2xx(status) \/ Is4xx(status)
             IN /\ parsed <=> accepted
                /\ ~parsed =>
                      /\ t.calls[i].stage = "resolved"
                      /\ t.calls[i].result = NetworkError("statusText")
                /\ parsed => t.calls[i].result = NoResult

\* with strict validation on, a response was refused and another one accepted
C25_Witness ==
    /\ raw.validateResponseContentType
    /\ \E i, j \in Calls :
          /\ raw.calls[i].stage = "resolved"
          /\ raw.calls[i].result = NetworkError("statusText")
          /\ raw.calls[j].stage = "json"

-----------------------------------------------------------------------------
(* Properties of the query cache *)

\* the requests of entry e in flight that no forceRefresh has superseded
Current(c, e) == {r \in c.requests : r.entry = e /\ ~r.cancelled}

\* C1: refresh() on an entry that is loading changes nothing, so it starts no
\* transport call however often it is called, and the promise it returns, the
\* entry's resultPromise, is that of the one request of the entry in flight;
\* executeQuery on a key that has no entry starts exactly one transport call in
\* every cache mode, its second refresh included.
C1_SingleFlight ==
    /\ \A e \in EntryIds(store) :
          store.entries[e].loading =>
             /\ refresh(store, e) = store
             /\ Current(store, e) =
                   {[promise |-> store.entries[e].resultPromise, entry |-> e,
                     cancelled |-> FALSE]}
    /\ \A key \in Keys, mode \in CacheModes :
          get(store, key) = 0 =>
             LET after == executeQuery(store, key, mode)
             IN /\ after.transportCalls = store.transportCalls + 1
                /\ after.entries[get(after, key)].loading
                /\ Cardinality(after.requests) = Cardinality(store.requests) + 1

\* refresh was called on an entry whose only request was still in flight
C1_Witness ==
    /\ store.last = "refresh" /\ store.transportCalls = 1
    /\ \E e \in EntryIds(store) : store.entries[e].loading /\ Current(store, e) # {}

\* the entries in the table that have a subscriber
Subscribed(c) == {e \in EntryIds(c) : InCache(c, e) /\ c.entries[e].subscribers # <<>>}
\* the entries of store that are in the table and have a subscriber are in the
\* table of c
Kept(c) == \A e \in Subscribed(store) : InCache(c, e)
\* the sizes asked of allocateCacheSize and setCacheEntrySize
Sizes == {EntryOverhead, EntryOverhead + resultSize("data"), maxCacheSize, maxCacheSize + maxCacheSize}

\* C2: no operation removes from the table an entry that is in it and has a
\* subscriber: not executeQuery and getOrCreateCacheEntry in any mode, not
\* allocateCacheSize and setCacheEntrySize whatever the size asked, not the
\* completion of a request, not clearCache, refreshAll and resetStore.
C2_SubscribedEntryStays ==
    /\ \A key \in Keys, mode \in CacheModes :
          /\ Kept(getOrCreateCacheEntry(store, key, mode)[1])
          /\ Kept(executeQuery(store, key, mode))
    /\ \A n \in Sizes :
          /\ \A exclude \in {0} \cup EntryIds(store) : Kept(allocateCacheSize(store, n, exclude))
          /\ \A e \in EntryIds(store) : Kept(setCacheEntrySize(store, e, n))
    /\ \A r \in store.requests, data \in Results : Kept(onResult(store, r, data))
    /\ Kept(clearCache(store))
    /\ \A force \in BOOLEAN : Kept(refreshAll(store, force))
    /\ Kept(resetStore(store))

\* a completion made room by removing an entry of another key while an entry
\* with a subscriber stayed in the table
C2_Witness ==
    /\ store.last = "onResult"
    /\ Subscribed(store) # {}
    /\ \E x \in EntryIds(store) : get(store, store.entries[x].key) = 0

\* the entry of key in the table of c has no subscriber
Idle(c, key) == get(c, key) # 0 /\ c.entries[get(c, key)].subscribers = <<>>

\* C17: executeQuery in no-cache mode, for a key whose entry in the table has no
\* subscriber, removes that entry from the table, deducts its size from
\* cacheSize, and returns a new entry for which it starts one transport call; in
\* no-cache mode it changes the expires of no entry and returns a new entry with
\* expires 0; an entry made in no-cache mode never has another expires than 0.
C17_NoCacheNeverReusesIdle ==
    /\ \A key \in Keys :
          LET old == get(store, key)
              got == getOrCreateCacheEntry(store, key, "no-cache")
              t == executeQuery(store, key, "no-cache")
          IN /\ Idle(store, key) =>
                   /\ got[2] # old /\ got[2] \notin EntryIds(store)
                   /\ ~InCache(t, old) /\ get(t, key) = got[2]
                   /\ t = executeQuery(delete(store, old), key, "no-cache")
                   /\ delete(store, old).cacheSize = store.cacheSize - store.entries[old].size
                   /\ t.transportCalls = store.transportCalls + 1
                   /\ t.entries[got[2]].loading
                   /\ t.entries[got[2]].resultPromise = t.transportCalls
                   /\ t.entries[old] = store.entries[old]
             /\ \A e \in EntryIds(store) : t.entries[e].expires = store.entries[e].expires
             /\ got[2] \notin EntryIds(store) => t.entries[got[2]].expires = 0
    /\ \A e \in EntryIds(store) : store.entries[e].noCache => store.entries[e].expires = 0

\* executeQuery in no-cache mode has replaced an entry that had its result and
\* no subscriber
C17_Witness ==
    /\ store.last = "executeQuery" /\ store.ops = 3
    /\ Len(store.entries) = 2 /\ store.cache = <<2>>
    /\ store.entries[1].key = store.entries[2].key
    /\ store.entries[1].result = "data" /\ store.entries[1].subscribers = <<>>
    /\ store.entries[2].noCache /\ store.entries[2].loading /\ store.entries[2].expires = 0

\* request r is the one its entry waits for: its completion is committed
Committed(c, r) == c.entries[r.entry].resultPromise = r.promise

\* C18: a committed completion whose Result has errors sets the expires of the
\* entry to 0, in whatever mode the entry was made; if the entry is then in the
\* table without a subscriber, the next executeQuery of its key starts one
\* transport call in every mode, on that entry unless the mode is no-cache; an
\* entry whose result has errors has expires 0.
C18_ErrorsExpireEntry ==
    /\ \A r \in store.requests :
          Committed(store, r) =>
             LET t == Done(onResult(store, r, "errors"))
                 e == r.entry
                 key == store.entries[e].key
             IN /\ t.entries[e].expires = 0
                /\ t.entries[e].result = "errors" /\ ~t.entries[e].loading
                /\ get(t, key) = e /\ t.entries[e].subscribers = <<>> =>
                      \A mode \in CacheModes :
                         LET u == executeQuery(t, key, mode)
                         IN /\ u.transportCalls = t.transportCalls + 1
                            /\ Cardinality(u.requests) = Cardinality(t.requests) + 1
                            /\ mode # "no-cache" =>
                                  /\ get(u, key) = e /\ u.entries[e].loading
                                  /\ u.entries[e].resultPromise = u.transportCalls
    /\ \A e \in EntryIds(store) :
          store.entries[e].result = "errors" => store.entries[e].expires = 0

\* executeQuery, in a mode that is not no-cache, found the entry of a Result
\* with errors without a subscriber and started a second transport call for it
C18_Witness ==
    /\ store.last = "executeQuery" /\ store.ops = 3
    /\ Len(store.entries) = 1 /\ store.cache = <<1>>
    /\ store.entries[1].result = "errors" /\ ~store.entries[1].noCache
    /\ store.entries[1].loading /\ store.transportCalls = 2

\* the entry that executeQuery(key, mode), called in store c, returns
Addressed(c, key, mode) == getOrCreateCacheEntry(c, key, mode)[2]

\* the table of c has no two entries of one key
UniqueKeys(c) ==
    \A j, k \in 1..Len(c.cache) : c.entries[c.cache[j]].key = c.entries[c.cache[k]].key => j = k

\* C19 as stated: two executeQuery calls with the same key, one made after the
\* other, return the same entry whatever their modes; two calls with different
\* keys return different entries; the table never has two entries of one key.
C19_SameKeySameEntry ==
    /\ \A key \in Keys, m1, m2 \in CacheModes :
          Addressed(executeQuery(store, key, m1), key, m2) = Addressed(store, key, m1)
    /\ \A k1, k2 \in Keys, m1, m2 \in CacheModes :
          k1 # k2 => Addressed(executeQuery(store, k1, m1), k2, m2) # Addressed(store, k1, m1)
    /\ UniqueKeys(store)

\* C19, amended: the second of two such calls with the same key returns the
\* entry of the first when its mode is not no-cache or that entry has a
\* subscriber, and a new entry that takes its place in the table otherwise;
\* executeQuery returns the entry the table has for the key whenever that entry
\* has a subscriber or the mode is not no-cache, and always an entry of the key;
\* two calls with different keys return different entries; the table never has
\* two entries of one key.
C19_KeyIdentity ==
    /\ \A key \in Keys, m1, m2 \in CacheModes :
          LET first == Addressed(store, key, m1)
              a == executeQuery(store, key, m1)
              second == Addressed(a, key, m2)
          IN /\ get(a, key) = first /\ a.entries[first].key = key
             /\ (m2 # "no-cache" \/ a.entries[first].subscribers # <<>>) => second = first
             /\ (m2 = "no-cache" /\ a.entries[first].subscribers = <<>>) =>
                   /\ second \notin EntryIds(a)
                   /\ executeQuery(a, key, m2).cache
                         = Append(SelectSeq(a.cache, LAMBDA x : x # first), second)
             /\ UniqueKeys(a) /\ UniqueKeys(executeQuery(a, key, m2))
    /\ \A key \in Keys, mode \in CacheModes :
          get(store, key) # 0 /\ (mode # "no-cache" \/ ~Idle(store, key))
             => Addressed(store, key, mode) = get(store, key)
    /\ \A k1, k2 \in Keys, m1, m2 \in CacheModes :
          k1 # k2 => Addressed(executeQuery(store, k1, m1), k2, m2) # Addressed(store, k1, m1)
    /\ UniqueKeys(store)

\* a second executeQuery with the key of the first found the entry of the first
\* and started no transport call
C19_Witness ==
    /\ store.last = "executeQuery" /\ store.ops = 2
    /\ Len(store.entries) = 1 /\ store.cache = <<1>>
    /\ store.transportCalls = 1 /\ store.entries[1].loading

\* the entries in the table that have no subscriber
IdleEntries(c) == {e \in EntryIds(c) : InCache(c, e) /\ c.entries[e].subscribers = <<>>}

\* clearCache left the entries that have a subscriber in the table, with their
\* result and with expires 0, started no transport call and called no subscriber
ClearedInPlace(c, t) ==
    /\ \A e \in Subscribed(c) :
          /\ InCache(t, e)
          /\ t.entries[e].result = c.entries[e].result
          /\ t.entries[e].expires = 0
          /\ t.entries[e].subscribers = c.entries[e].subscribers
    /\ t.transportCalls = c.transportCalls /\ t.requests = c.requests
    /\ t.notified = c.notified

\* C20: after clearCache() the table has no entry without a subscriber; every
\* entry with a subscriber is still in it with its result and with expires 0;
\* clearCache starts no transport call and calls no subscriber.
C20_ClearCachePurgesIdle ==
    LET t == clearCache(store)
    IN IdleEntries(t) = {} /\ ClearedInPlace(store, t)

\* the transport calls that an operation taking c to t started
Started(c, t) == {r \in t.requests : r.promise > c.transportCalls}

\* the subscriber calls with null that an operation taking c to t made for the
\* subscribers of entry e are one for each of them, in their order
PublishedNull(c, t, e) ==
    LET calls == SubSeq(t.notified, Len(c.notified) + 1, Len(t.notified))
    IN \E k \in 0..(Len(calls) - Len(c.entries[e].subscribers)) :
          \A j \in 1..Len(c.entries[e].subscribers) :
             calls[k + j] = [callback |-> c.entries[e].subscribers[j], data |-> "null"]

\* what resetStore, taking c to t, did for the entries that clearCache leaves
\* with a subscriber: one transport call each, and null to the subscribers of
\* those that had a result
ResetSubscribed(c, t) ==
    \A e \in Subscribed(clearCache(c)) :
       /\ Cardinality({r \in Started(c, t) : r.entry = e}) = 1
       /\ t.entries[e].loading /\ t.entries[e].result = "null"
       /\ c.entries[e].result # "null" => PublishedNull(c, t, e)

\* C21: resetStore() starts a transport call only for entries that have a
\* subscriber; for each entry that clearCache leaves with a subscriber it starts
\* one, and if the entry had a result its subscribers are called with null.
C21_ResetStoreOnlySubscribed ==
    LET t == resetStore(store)
    IN /\ \A r \in Started(store, t) : t.entries[r.entry].subscribers # <<>>
       /\ ResetSubscribed(store, t)

\* the number of transport calls that an operation taking c to t started for
\* entry e
StartedFor(c, t, e) == Cardinality({r \in Started(c, t) : r.entry = e})

\* C22: refreshAll(false) starts one transport call for each entry that
\* clearCache leaves with a subscriber and that is not loading, and none for one
\* that is loading, whose request it leaves alone; refreshAll(true) cancels the
\* request of each such entry that is loading and starts one transport call for
\* every such entry; neither starts one for an entry without a subscriber.
C22_RefreshAll ==
    \A force \in BOOLEAN :
       LET t == refreshAll(store, force)
           survivors == Subscribed(clearCache(store))
       IN /\ survivors = Subscribed(store)
          /\ \A r \in Started(store, t) : r.entry \in survivors
          /\ \A e \in survivors :
                LET was == store.entries[e]
                    old == [promise |-> was.resultPromise, entry |-> e, cancelled |-> FALSE]
                IN /\ StartedFor(store, t, e) = (IF was.loading /\ ~force THEN 0 ELSE 1)
                   /\ t.entries[e].loading
                   /\ was.loading => old \in store.requests
                   /\ was.loading /\ ~force =>
                         old \in t.requests /\ t.entries[e].resultPromise = was.resultPromise
                   /\ was.loading /\ force =>
                         /\ [old EXCEPT !.cancelled = TRUE] \in t.requests
                         /\ old \notin t.requests
                         /\ t.entries[e].resultPromise > store.transportCalls
          /\ \A e \in EntryIds(store) \ survivors :
                /\ StartedFor(store, t, e) = 0
                /\ {r \in t.requests : r.entry = e} = {r \in store.requests : r.entry = e}
          /\ t.transportCalls = store.transportCalls + Cardinality(Started(store, t))

\* refreshAll(true) cancelled the request of an entry that has a subscriber and
\* started a second one for it
C22_Witness ==
    /\ store.last = "refreshAll" /\ store.ops = 3 /\ store.transportCalls = 2
    /\ \E r \in store.requests :
          /\ r.cancelled /\ store.entries[r.entry].subscribers # <<>>
          /\ store.entries[r.entry].loading
          /\ store.entries[r.entry].resultPromise = 2

\* the number of registrations of callback in list q
Registrations(q, callback) == Cardinality({k \in 1..Len(q) : q[k] = callback})
\* list q without its k-th registration
Without(q, k) == SubSeq(q, 1, k - 1) \o SubSeq(q, k + 1, Len(q))
RECURSIVE Others(_, _)
\* the registrations of list q that are not of callback, in their order
Others(q, callback) ==
    IF q = <<>> THEN <<>>
    ELSE IF Head(q) = callback THEN Others(Tail(q), callback)
    ELSE <<Head(q)>> \o Others(Tail(q), callback)

\* C26 as stated: the function that subscribe(callback) returned takes one
\* registration out of the list, that of its callback, and leaves all the
\* others in their order; a second call of it changes nothing.
C26_RemovesOneRegistration ==
    \A e \in EntryIds(store), callback \in Callbacks :
       LET q == store.entries[e].subscribers
           t == unsubscribe(store, e, callback)
       IN Registrations(q, callback) > 0 =>
             /\ \E k \in 1..Len(q) : q[k] = callback /\ t.entries[e].subscribers = Without(q, k)
             /\ unsubscribe(t, e, callback) = t

\* C26, amended: the function takes every registration of its callback out of
\* the list, the one registration when the callback was registered once, and
\* leaves the registrations of other callbacks in their order; it changes
\* nothing else, and a second call of it changes nothing.
C26_RemovesItsCallback ==
    \A e \in EntryIds(store), callback \in Callbacks :
       LET q == store.entries[e].subscribers
           t == unsubscribe(store, e, callback)
       IN /\ t.entries[e].subscribers = Others(q, callback)
          /\ Registrations(t.entries[e].subscribers, callback) = 0
          /\ Len(t.entries[e].subscribers) = Len(q) - Registrations(q, callback)
          /\ Registrations(q, callback) = 1 =>
                \E k \in 1..Len(q) : q[k] = callback /\ t.entries[e].subscribers = Without(q, k)
          /\ t = [store EXCEPT !.entries[e].subscribers = t.entries[e].subscribers]
          /\ unsubscribe(t, e, callback) = t

\* of two callbacks subscribed to an entry, one was unsubscribed
C26_Witness ==
    /\ store.last = "unsubscribe" /\ store.ops = 4
    /\ \E e \in EntryIds(store) : store.entries[e].subscribers = <<"g">>

\* the transport calls for key in flight that no forceRefresh has cancelled
InFlight(c, key) == {r \in c.requests : c.entries[r.entry].key = key /\ ~r.cancelled}

\* C27 as stated: at any time at most one transport call is in flight for a
\* key (not counting those that forceRefresh has cancelled).
C27_OneCallPerKey == \A key \in Keys : Cardinality(InFlight(store, key)) <= 1

\* C27, amended: at any time at most one transport call that has not been
\* cancelled is in flight for an entry, and for a key at most one such call of
\* the entry the table has for the key; the other calls in flight for the key
\* are those of entries that were replaced in or removed from the table.
C27_OneCallPerEntry ==
    /\ \A e \in EntryIds(store) : Cardinality(Current(store, e)) <= 1
    /\ \A key \in Keys :
          /\ Cardinality({r \in InFlight(store, key) : InCache(store, r.entry)}) <= 1
          /\ \A r \in InFlight(store, key) : InCache(store, r.entry) => r.entry = get(store, key)

\* two transport calls are in flight for one key: that of an entry that
\* executeQuery in no-cache mode has replaced while it was loading, and that of
\* the entry that took its place
C27_Witness ==
    /\ store.last = "executeQuery" /\ store.ops = 2 /\ store.cache = <<2>>
    /\ Cardinality(InFlight(store, store.entries[1].key)) = 2
    /\ store.entries[1].loading /\ store.entries[2].loading

\* the transport requests of entry e that are outstanding, cancelled or not
RequestsOf(c, e) == {r \in c.requests : r.entry = e}

\* C29 as stated: of every entry at most one transport request is outstanding
\* at any time, where a request that forceRefresh has cancelled is outstanding
\* until it completes.
C29_OneRequestPerEntry ==
    \A e \in EntryIds(store) : Cardinality(RequestsOf(store, e)) <= 1

\* C29, amended: of every entry at most one outstanding request is the one the
\* entry waits for, that of its resultPromise, and it is not cancelled; every
\* other outstanding request of the entry is one that forceRefresh or
\* clearAndRefresh has cancelled, and its completion changes nothing in the
\* entry and calls no subscriber.
C29_OneAwaitedRequestPerEntry ==
    \A e \in EntryIds(store) :
       /\ Cardinality({r \in RequestsOf(store, e) : Committed(store, r)}) <= 1
       /\ \A r \in RequestsOf(store, e) :
             IF Committed(store, r)
             THEN ~r.cancelled /\ store.entries[e].loading
             ELSE /\ r.cancelled
                  /\ \A data \in Results :
                        onResult(store, r, data) = [store EXCEPT !.requests = @ \ {r}]

\* forceRefresh has cancelled the request of an entry and started another one
\* while the first is still outstanding
C29_Witness ==
    /\ store.last = "forceRefresh" /\ store.ops = 2
    /\ Cardinality(RequestsOf(store, 1)) = 2
    /\ \E r \in RequestsOf(store, 1) : r.cancelled

\* C30 as stated: an entry whose loading is false and whose cancelRequest is
\* unset has no outstanding transport request.
C30_IdleMeansNoRequest ==
    \A e \in EntryIds(store) :
       ~store.entries[e].loading /\ store.entries[e].cancelRequest = 0
          => RequestsOf(store, e) = {}

\* C30, amended: such an entry has no outstanding request but those that
\* forceRefresh or clearAndRefresh cancelled, which it does not wait for; and
\* cancelRequest is set exactly while loading is true, to the request the entry
\* waits for.
C30_IdleMeansNoAwaitedRequest ==
    \A e \in EntryIds(store) :
       /\ ~store.entries[e].loading /\ store.entries[e].cancelRequest = 0 =>
             /\ Current(store, e) = {}
             /\ \A r \in RequestsOf(store, e) : r.cancelled /\ ~Committed(store, r)
       /\ store.entries[e].loading <=> store.entries[e].cancelRequest # 0
       /\ store.entries[e].loading =>
             store.entries[e].cancelRequest = store.entries[e].resultPromise

\* the request that replaced a cancelled one has completed while the cancelled
\* one is still outstanding
C30_Witness ==
    /\ store.last = "onResult" /\ store.ops = 3
    /\ ~store.entries[1].loading /\ store.entries[1].cancelRequest = 0
    /\ store.entries[1].result # "null"
    /\ \E r \in RequestsOf(store, 1) : r.cancelled

\* the completion of request r with data, taking c to t, left the entry of r,
\* the table, cacheSize and the subscribers alone
Dropped(c, t, r) ==
    LET e == r.entry
    IN /\ t.entries[e].result = c.entries[e].result
       /\ t.entries[e].loading = c.entries[e].loading
       /\ t.entries[e].cancelRequest = c.entries[e].cancelRequest
       /\ t.entries[e].resultPromise = c.entries[e].resultPromise
       /\ t.entries[e].expires = c.entries[e].expires
       /\ t.entries[e].size = c.entries[e].size
       /\ t.entries = c.entries
       /\ t.cache = c.cache /\ t.cacheSize = c.cacheSize
       /\ t.notified = c.notified
       /\ t.transportCalls = c.transportCalls
       /\ t.requests = c.requests \ {r}

\* C31: the completion of a request that forceRefresh has superseded changes
\* nothing: result, loading, cancelRequest, expires and size of the entry stay,
\* cacheSize and the table stay, and no subscriber is called; a completion that
\* changes anything is that of the request the entry waits for, which no
\* forceRefresh has cancelled.
C31_StaleCompletionDropped ==
    \A r \in store.requests, data \in Results :
       LET t == onResult(store, r, data)
       IN /\ r.cancelled =>
                /\ ~Committed(store, r)
                /\ Dropped(store, t, r)
          /\ ~Dropped(store, t, r) =>
                /\ Committed(store, r) /\ ~r.cancelled
                /\ store.entries[r.entry].loading
                /\ store.entries[r.entry].cancelRequest = r.promise

\* the request that forceRefresh superseded has completed while the entry waits
\* for the second one, and the entry is as forceRefresh left it
C31_Witness ==
    /\ store.last = "onResult" /\ store.ops = 3 /\ store.transportCalls = 2
    /\ store.entries[1].loading /\ store.entries[1].resultPromise = 2
    /\ store.entries[1].result = "null" /\ store.entries[1].size = EntryOverhead
    /\ RequestsOf(store, 1) = {[promise |-> 2, entry |-> 1, cancelled |-> FALSE]}

\* the subscriber calls that an operation taking c to t made
SubscriberCalls(c, t) == SubSeq(t.notified, Len(c.notified) + 1, Len(t.notified))
\* the calls of q made to callback
CallsOf(q, callback) == Len(SelectSeq(q, LAMBDA x : x.callback = callback))

\* the completion with data of the request that entry e waits for, taking c to
\* t, stored data in the entry, ended its loading, and called each registration
\* of the subscriber list once with data, in the order of the list
CommittedTo(c, t, e, data) ==
    /\ t.entries[e].result = data
    /\ ~t.entries[e].loading
    /\ t.entries[e].cancelRequest = 0
    /\ t.entries[e].subscribers = c.entries[e].subscribers
    /\ SubscriberCalls(c, t) = [k \in 1..Len(c.entries[e].subscribers) |->
                         [callback |-> c.entries[e].subscribers[k], data |-> data]]

\* C32 as stated: the completion of the request an entry waits for stores the
\* Result, ends loading, clears cancelRequest, and calls every callback that is
\* subscribed exactly once with the Result, in subscription order, in the step
\* of the completion.
C32_EachCallbackOnce ==
    \A r \in store.requests, data \in Results :
       Committed(store, r) =>
          LET t == onResult(store, r, data)
          IN /\ CommittedTo(store, t, r.entry, data)
             /\ \A callback \in Callbacks :
                   Registrations(store.entries[r.entry].subscribers, callback) > 0
                      => CallsOf(SubscriberCalls(store, t), callback) = 1

\* C32, amended: the completion stores the Result, ends loading, clears
\* cancelRequest, and makes one call with the Result for every registration of
\* the subscriber list, in the order of the list and in the step of the
\* completion: a callback is called as many times as it is registered, once if
\* it was subscribed once, and no callback that is not registered is called.
C32_EachRegistrationOnce ==
    \A r \in store.requests, data \in Results :
       Committed(store, r) =>
          LET t == onResult(store, r, data)
          IN /\ CommittedTo(store, t, r.entry, data)
             /\ \A callback \in Callbacks :
                   CallsOf(SubscriberCalls(store, t), callback)
                      = Registrations(store.entries[r.entry].subscribers, callback)
             /\ Done(t).notified = <<>>

\* the request of an entry with two subscribers has completed
C32_Witness ==
    /\ store.last = "onResult" /\ store.ops = 4
    /\ store.entries[1].subscribers = <<"f", "g">>
    /\ store.entries[1].result # "null" /\ ~store.entries[1].loading
    /\ store.entries[1].cancelRequest = 0 /\ store.requests = {}

\* one call with data for each registration of the subscriber list of entry e
\* of c, in the order of the list
OneEach(c, e, data) ==
    [k \in 1..Len(c.entries[e].subscribers) |->
        [callback |-> c.entries[e].subscribers[k], data |-> data]]

\* C33: clearAndRefresh() on an entry whose result is not null sets it to null
\* and calls every subscriber once with null, in the step of the call, while the
\* request of the refetch is still outstanding, so that null is seen before the
\* Result of the refetch, which a later completion delivers; on an entry whose
\* result is null it calls nobody; in both cases the entry is loading afterwards
\* and one transport call was started, which is the one the entry waits for.
C33_ClearAndRefresh ==
    \A e \in EntryIds(store) :
       LET t == clearAndRefresh(store, e)
           attempt == [promise |-> t.transportCalls, entry |-> e, cancelled |-> FALSE]
       IN /\ t.entries[e].result = "null"
          /\ SubscriberCalls(store, t) =
                (IF store.entries[e].result # "null" THEN OneEach(store, e, "null") ELSE <<>>)
          /\ t.entries[e].loading
          /\ t.transportCalls = store.transportCalls + 1
          /\ Started(store, t) = {attempt}
          /\ Committed(t, attempt) /\ Current(t, e) = {attempt}
          /\ \A r \in store.requests : r.entry = e => [r EXCEPT !.cancelled = TRUE] \in t.requests
          /\ \A data \in Results :
                LET u == onResult(Done(t), attempt, data)
                IN /\ SubscriberCalls(Done(t), u) = OneEach(store, e, data)
                   /\ u.entries[e].result = data

\* clearAndRefresh was called on an entry that had a result and a subscriber:
\* the entry has no result and is loading for the second time
C33_Witness ==
    /\ store.last = "clearAndRefresh" /\ store.ops = 4 /\ store.transportCalls = 2
    /\ store.entries[1].subscribers # <<>>
    /\ store.entries[1].result = "null" /\ store.entries[1].loading
    /\ store.entries[1].size = EntryOverhead + resultSize("data")

-----------------------------------------------------------------------------
(* Properties of allocateCacheSize *)

RECURSIVE SumSizes(_, _)
\* the sum of the sizes of the entries es of c
SumSizes(c, es) ==
    IF es = {} THEN 0
    ELSE LET e == CHOOSE x \in es : TRUE IN c.entries[e].size + SumSizes(c, es \ {e})

\* the entries in the table of c without a subscriber whose expires has passed,
\* and those whose expires has not
ExpiredIdle(c) == {e \in IdleEntries(c) : c.entries[e].expires < c.now}
UnexpiredIdle(c) == IdleEntries(c) \ ExpiredIdle(c)
\* the entries that are in the table of c and not in that of t
Removed(c, t) == {e \in EntryIds(c) : InCache(c, e) /\ ~InCache(t, e)}

\* allocateCacheSize(newSize), taking c to t, removed first the idle entries
\* that had expired and then unexpired idle ones, least recently used first,
\* while it had to
FreedInOrder(c, t, newSize) ==
    LET needBytes == c.cacheSize + newSize - c.maxCacheSize
        late == Removed(c, t) \cap UnexpiredIdle(c)
    IN IF needBytes <= 0 THEN t = c
       ELSE /\ ExpiredIdle(c) \subseteq Removed(c, t)
            /\ Removed(c, t) \subseteq IdleEntries(c)
            /\ late # {} =>
                  /\ needBytes - SumSizes(c, ExpiredIdle(c)) > 0
                  /\ \E e \in late :
                        needBytes - SumSizes(c, ExpiredIdle(c)) - SumSizes(c, late \ {e}) > 0
            /\ \A e \in late, k \in UnexpiredIdle(c) \ late :
                  c.entries[e].lastUsed <= c.entries[k].lastUsed
            /\ UnexpiredIdle(c) \ late # {} => t.cacheSize + newSize - t.maxCacheSize <= 0
            /\ t.cacheSize = c.cacheSize - SumSizes(c, Removed(c, t))
            /\ t.entries = c.entries

\* C23: when allocateCacheSize has to free space it removes every entry without
\* a subscriber whose expires has passed, and an unexpired entry without a
\* subscriber only if that was not enough, those least recently used first and
\* no more of them than needed; it removes no entry that has a subscriber.  With
\* one entry A idle and expired, one B idle and unexpired and the others
\* subscribed, needing A.size bytes removes A only and needing A.size + B.size
\* removes A and B.
C23_EvictionOrder ==
    \A newSize \in AllocSizes :
       LET t == allocateCacheSize(store, newSize, 0)
           needBytes == store.cacheSize + newSize - store.maxCacheSize
       IN /\ FreedInOrder(store, t, newSize)
          /\ \A A \in ExpiredIdle(store), B \in UnexpiredIdle(store) :
                ExpiredIdle(store) = {A} /\ UnexpiredIdle(store) = {B} =>
                   /\ needBytes = store.entries[A].size => Removed(store, t) = {A}
                   /\ needBytes = store.entries[A].size + store.entries[B].size
                         => Removed(store, t) = {A, B}

\* of an expired idle entry, an unexpired idle entry and a subscribed entry,
\* allocateCacheSize has removed the first only
C23_Witness ==
    /\ store.last = "allocateCacheSize"
    /\ store.cache = <<2, 3>>
    /\ store.entries[1].subscribers = <<>> /\ store.entries[1].expires < store.now
    /\ store.entries[2].subscribers = <<>> /\ store.entries[2].expires > store.now
    /\ store.entries[3].subscribers # <<>>

\* C34: setCacheEntrySize never removes the entry it resizes from the table,
\* and the entries it removes are other entries without a subscriber; so the
\* completion of a request, which resizes its entry, leaves the entry in the
\* table if it was there.
C34_ResizedEntryStays ==
    /\ \A e \in EntryIds(store) :
          LET t == setCacheEntrySize(store, e, EntryOverhead + resultSize("data"))
          IN /\ InCache(store, e) => InCache(t, e)
             /\ Removed(store, t) \subseteq IdleEntries(store) \ {e}
    /\ \A r \in store.requests :
          Committed(store, r) /\ InCache(store, r.entry)
             => InCache(onResult(store, r, "data"), r.entry)

\* the entries in the table of c
Table(c) == {e \in EntryIds(c) : InCache(c, e)}

\* C35: after every operation cacheSize is the sum of the sizes of the entries
\* in the table, and so it is never negative.
C35_CacheSizeIsSum ==
    /\ store.cacheSize = SumSizes(store, Table(store))
    /\ store.cacheSize >= 0

RECURSIVE Iterations(_, _, _)
\* the number of entries that the loop of 678-696 removes before it leaves
Iterations(c, newSize, exclude) ==
    IF c.cacheSize + newSize - c.maxCacheSize <= 0 \/ oldestEntry(c, exclude) = 0
    THEN 0
    ELSE 1 + Iterations(delete(c, oldestEntry(c, exclude)), newSize, exclude)

\* C36: allocateCacheSize(n, exclude) removes nothing when cacheSize + n is at
\* most maxCacheSize; otherwise, when it returns, cacheSize + n is at most
\* maxCacheSize or the table has no entry without a subscriber but exclude; it
\* always returns: every turn of its loop removes one entry of the table, and
\* it makes no more turns than the table has entries without a subscriber.
C36_AllocateStops ==
    LET idle == IdleEntries(store)
        expired == deleteEach(store, SelectSeq(store.cache,
                                        LAMBDA x : /\ store.entries[x].subscribers = <<>>
                                                   /\ store.entries[x].expires < store.now))
        left == Cardinality(IdleEntries(expired))
    IN \A n \in AllocSizes, exclude \in {0} \cup EntryIds(store) :
          LET t == allocateCacheSize(store, n, exclude)
              gone == Removed(store, t)
              turns == Iterations(expired, n, exclude)
          IN IF store.cacheSize + n <= store.maxCacheSize
             THEN t = store
             ELSE /\ \/ t.cacheSize + n <= t.maxCacheSize
                     \/ IdleEntries(t) \ {exclude} = {}
                  /\ gone \subseteq idle
                  /\ Len(t.cache) = Len(store.cache) - Cardinality(gone)
                  /\ turns <= left
                  /\ Len(t.cache) = Len(expired.cache) - turns

\* allocateCacheSize has removed an entry and returned with the table still over
\* its limit, because every entry left has a subscriber
C36_Witness ==
    /\ store.last = "allocateCacheSize"
    /\ Len(store.cache) < MaxEntries /\ store.cache # <<>>
    /\ store.cacheSize + EntryOverhead > store.maxCacheSize
    /\ IdleEntries(store) = {}

\* C39: in every reachable state every entry that has a subscriber is in the
\* table, and so refreshAll and resetStore reach it, also when it got its first
\* subscriber some time after the executeQuery that returned it.
C39_SubscribedEntryInTable ==
    \A e \in EntryIds(store) :
       store.entries[e].subscribers # <<>> =>
          /\ InCache(store, e)
          /\ get(store, store.entries[e].key) = e

\* C40: executeQuery of a key whose entry is in the table with a subscriber
\* starts no transport call and does not replace the entry, in every cache
\* mode and whether the entry has expired or not: it returns that entry, and
\* the store afterwards differs only in the lastUsed of the entry.
C40_SubscribedEntryReturned ==
    \A key \in Keys, mode \in CacheModes :
       LET e == get(store, key)
           t == executeQuery(store, key, mode)
       IN e # 0 /\ store.entries[e].subscribers # <<>> =>
             /\ Addressed(store, key, mode) = e
             /\ get(t, key) = e /\ t.cache = store.cache
             /\ t.transportCalls = store.transportCalls
             /\ t.requests = store.requests
             /\ t.cacheSize = store.cacheSize /\ t.notified = store.notified
             /\ t.entries[e].lastUsed = store.now
             /\ t = [store EXCEPT !.entries[e].lastUsed = store.now]

\* executeQuery found the entry of its key subscribed, expired and not loading,
\* and started no second transport call
C40_Witness ==
    /\ store.last = "executeQuery" /\ store.ops = 4
    /\ Len(store.entries) = 1 /\ store.cache = <<1>>
    /\ store.entries[1].subscribers # <<>>
    /\ store.entries[1].result = "errors" /\ store.entries[1].expires < store.now
    /\ ~store.entries[1].loading /\ store.transportCalls = 1

====
